---- MODULE Spec2Model ----
(***************************************************************************)
(* Furniture marketplace agent: the batch classification workflow of       *)
(* LangGraphFurnitureClassifier (src/furniture_classifier.py), the         *)
(* analysis endpoint that drives it (src/backend/main.py) and the          *)
(* EnhancedGroupingAgent (src/backend/visual_grouping.py).                 *)
(*                                                                         *)
(* Python lists are sequences; a list position p (1-based here) holds the  *)
(* element the code addresses with index p - 1.  Dictionaries are records; *)
(* a key the code may leave out holds NoValue.  Confidences are in         *)
(* hundredths (0.3 is 30).  An uploaded file is saved under a name built   *)
(* from its position in the request, so a saved path is modelled by that   *)
(* position.                                                               *)
(***************************************************************************)
EXTENDS Integers, Sequences, FiniteSets, TLC

\* Bounds of the model.
MaxFiles == 2
MaxAnswerIndices == 3

\* A key that is absent from a dictionary / Python's None.
NoValue == "NoValue"

VARIABLES
    \* the request and the process-wide configuration
    entry,                  \* "endpoint" (auto_analyze_multiple_furniture) or "classifier" (direct call)
    files,                  \* the uploaded files: TRUE for an image content type
    LANGGRAPH_AVAILABLE,    \* main.py module flag
    classifier_module,      \* which furniture_classifier.py the import found
    \* EnhancedGroupingAgent
    client,                 \* self.client is set
    agent_items,            \* the all_items argument of group_furniture_images
    agent_embeddings,       \* what _get_image_embedding met, per item
    agent_result,           \* what group_furniture_images returned, or that it raised
    compensated_sum,        \* the interpreter's sum() compensates float rounding (Python >= 3.12)
    score_attr1,            \* the arguments of one call of _calculate_furniture_similarity
    score_attr2,
    score,                  \* what that call returned
    \* FurnitureAnalysisState
    image_paths,
    vision_results,
    classification_results,
    pricing_results,
    furniture_groups,
    final_listings,
    current_step,
    errors,
    processing_complete,
    total_images,
    \* control
    node,                   \* the workflow node (or endpoint step) that runs next
    grouping_trace,         \* what the grouping step did: the answer it got and the strategy used
    \* the endpoint
    saved_paths,
    agent_listings,         \* result["listings"] of the agent fallback, before it is regrouped
    result,                 \* what process_furniture_images (or the agent fallback) returned
    response,               \* what the endpoint returned to the client
    \* FurnitureWorkflowEngine (workflows/furniture_workflow.py)
    state,                  \* the FurnitureAnalysisState of a run_workflow, and the node that runs next
    agent_outcomes,         \* what each agent of the engine did: pending, returned or raised
    workflow_return,        \* what run_workflow returned
    \* AIAgentSystem (ai_agent_system.py)
    agent_results,          \* per task of the gather: pending, a mapping, or an exception
    pricing_call,           \* the arguments pricing_agent was called with
    analysis,               \* what analyze_furniture_with_agents returned
    \* requests of the endpoint that are handled at the same time
    clock,                  \* datetime.now(), in seconds
    uploads,                \* the uploads directory: <<path, batch that wrote the file>>
    batches                 \* per batch: how far it is, and its saved_paths

wfData == <<image_paths, vision_results, classification_results, pricing_results,
            furniture_groups, final_listings, current_step, errors,
            processing_complete, total_images, grouping_trace>>

wfVars == <<wfData, node>>

epVars == <<saved_paths, agent_listings, response>>

envVars == <<files, LANGGRAPH_AVAILABLE, classifier_module>>

scVars == <<compensated_sum, score_attr1, score_attr2, score>>

agVars == <<client, agent_items, agent_embeddings, agent_result, scVars>>

beVars == <<state, agent_outcomes, workflow_return, agent_results, pricing_call, analysis,
            clock, uploads, batches>>

vars == <<entry, envVars, agVars, wfVars, result, epVars, beVars>>

----------------------------------------------------------------------------
\* Helpers on sequences.

Range(s) == {s[k] : k \in 1..Len(s)}

RECURSIVE SumSeq(_)
SumSeq(s) == IF s = <<>> THEN 0 ELSE Head(s) + SumSeq(Tail(s))

\* Python's  seq[idx]  for idx >= -len(seq); the caller guards the range.
PyIndex(s, idx) == IF idx >= 0 THEN s[idx + 1] ELSE s[Len(s) + idx + 1]

\* Sequences over S of length at most n.
SeqsUpTo(S, n) == UNION {[1..k -> S] : k \in 0..n}

\* The saved paths of the image files of a request, in request order
\* (position i of the request, 0-based, names the file).
RECURSIVE ImagePathsFrom(_, _)
ImagePathsFrom(fs, i) ==
    IF fs = <<>> THEN <<>>
    ELSE (IF Head(fs) THEN <<i>> ELSE <<>>) \o ImagePathsFrom(Tail(fs), i + 1)

----------------------------------------------------------------------------
\* _vision_analysis_node: the fallback vocabulary and the fallback record.

fallback_colors == <<"Brown", "Black", "White", "Gray", "Blue", "Red", "Green", "Wood", "Beige", "Silver">>
fallback_types == <<"Chair", "Table", "Sofa", "Desk", "Cabinet", "Bed", "Dresser", "Bookshelf", "Nightstand", "Ottoman">>
fallback_materials == <<"Wood", "Metal", "Fabric", "Leather", "Plastic", "Glass", "Composite", "Wicker", "Stone", "Ceramic">>
fallback_styles == <<"Modern", "Traditional", "Contemporary", "Rustic", "Industrial", "Scandinavian", "Vintage", "Minimalist", "Classic", "Farmhouse">>

\* The record appended in the except branch for image i (0-based) at image_path.
FallbackVision(i, image_path) ==
    [furniture_detected   |-> TRUE,
     furniture_type       |-> fallback_types[(i % Len(fallback_types)) + 1],
     primary_color        |-> fallback_colors[(i % Len(fallback_colors)) + 1],
     material_appearance  |-> fallback_materials[(i % Len(fallback_materials)) + 1],
     style_indicators     |-> fallback_styles[(i % Len(fallback_styles)) + 1],
     unique_features      |-> <<"Feature_" \o ToString(i + 1)>>,
     analysis_confidence  |-> 30,
     image_path           |-> image_path,
     image_index          |-> i,
     error                |-> TRUE,
     fallback_used        |-> TRUE]

\* What the vision model may answer for an image (the parsed JSON).
VisionAnswers ==
    {[kind |-> "ok", furniture_type |-> "Chair", primary_color |-> "Blue",
      material_appearance |-> "Fabric", style_indicators |-> "Modern",
      analysis_confidence |-> 90]}

\* The record appended in the try branch: the answer plus image_path and image_index.
ParsedVision(ans, i, image_path) ==
    [furniture_detected   |-> TRUE,
     furniture_type       |-> ans.furniture_type,
     primary_color        |-> ans.primary_color,
     material_appearance  |-> ans.material_appearance,
     style_indicators     |-> ans.style_indicators,
     unique_features      |-> <<>>,
     analysis_confidence  |-> ans.analysis_confidence,
     image_path           |-> image_path,
     image_index          |-> i]

\* One outcome of the per-image call: an exception in the try block, or an answer.
CallFailed == [kind |-> "fail"]
VisionOutcomes == {CallFailed} \cup VisionAnswers

\* The except branch of src/backend/furniture_classifier.py: the same values for
\* every image, and no "fallback_used" key.
BackendFallbackVision(i, image_path) ==
    [furniture_detected   |-> TRUE,
     furniture_type       |-> "Furniture",
     primary_color        |-> "Unknown",
     material_appearance  |-> "Mixed materials",
     style_indicators     |-> "Contemporary",
     unique_features      |-> <<>>,
     analysis_confidence  |-> 30,
     image_path           |-> image_path,
     image_index          |-> i,
     error                |-> TRUE]

\* The two copies of the classifier: src/furniture_classifier.py ("root") and
\* src/backend/furniture_classifier.py ("backend").
ClassifierModules == {"root", "backend"}

VisionRecord(module, outcome, i, image_path) ==
    IF outcome.kind = "fail"
    THEN (IF module = "root" THEN FallbackVision(i, image_path)
          ELSE BackendFallbackVision(i, image_path))
    ELSE ParsedVision(outcome, i, image_path)

----------------------------------------------------------------------------
\* _classification_node and _pricing_node: one record per vision result.

ClassificationAnswers ==
    {[kind |-> "ok", category |-> "Chair", subcategory |-> "Office Chair",
      material |-> "Fabric", style |-> "Modern", classification_confidence |-> 85]}

ClassificationOutcomes == {CallFailed} \cup ClassificationAnswers

ParsedClassification(ans, vision_result) ==
    [category |-> ans.category,
     subcategory |-> ans.subcategory,
     material |-> ans.material,
     style |-> ans.style,
     classification_confidence |-> ans.classification_confidence,
     image_index |-> vision_result.image_index,
     source_vision |-> vision_result]

FallbackClassification(vision_result) ==
    [category |-> vision_result.furniture_type,
     subcategory |-> vision_result.furniture_type,
     material |-> "Mixed Materials",
     style |-> "Contemporary",
     classification_confidence |-> 30,
     image_index |-> vision_result.image_index,
     source_vision |-> vision_result,
     error |-> TRUE]

ClassificationRecord(outcome, vision_result) ==
    IF outcome.kind = "fail" THEN FallbackClassification(vision_result)
    ELSE ParsedClassification(outcome, vision_result)

PricingAnswers == {[kind |-> "ok", suggested_price |-> 125]}

PricingOutcomes == {CallFailed} \cup PricingAnswers

ParsedPricing(ans, classification_result) ==
    [suggested_price |-> ans.suggested_price,
     image_index |-> classification_result.image_index,
     source_classification |-> classification_result]

FallbackPricing(classification_result) ==
    [suggested_price |-> 100,
     image_index |-> classification_result.image_index,
     source_classification |-> classification_result,
     error |-> TRUE]

\* src/backend/furniture_classifier.py prices under the key estimated_price, and its
\* fallback price is base_prices.get(category, 100).
base_prices ==
    [category \in {"Chair", "Table", "Sofa", "Bed", "Desk", "Cabinet", "Bookshelf"} |->
        CASE category = "Chair" -> 85 [] category = "Table" -> 140 [] category = "Sofa" -> 300
          [] category = "Bed" -> 200 [] category = "Desk" -> 120 [] category = "Cabinet" -> 150
          [] OTHER -> 80]

BackendParsedPricing(ans, classification_result) ==
    [estimated_price |-> ans.suggested_price,
     image_index |-> classification_result.image_index,
     source_classification |-> classification_result]

BackendFallbackPricing(classification_result) ==
    [estimated_price |-> IF classification_result.category \in DOMAIN base_prices
                         THEN base_prices[classification_result.category] ELSE 100,
     image_index |-> classification_result.image_index,
     source_classification |-> classification_result,
     error |-> TRUE]

PricingRecord(module, outcome, classification_result) ==
    IF module = "root"
    THEN (IF outcome.kind = "fail" THEN FallbackPricing(classification_result)
          ELSE ParsedPricing(outcome, classification_result))
    ELSE (IF outcome.kind = "fail" THEN BackendFallbackPricing(classification_result)
          ELSE BackendParsedPricing(outcome, classification_result))

\* The entries appended to state["errors"] by one node: one per failed call, in
\* list order.  The vision node numbers images from 1, the others use image_index.
RECURSIVE NodeErrors(_, _, _, _)
NodeErrors(stage, outcomes, k, base) ==
    IF k > Len(outcomes) THEN <<>>
    ELSE (IF outcomes[k].kind = "fail"
          THEN <<[stage |-> stage, image |-> (k - 1) + base]>>
          ELSE <<>>) \o NodeErrors(stage, outcomes, k + 1, base)


----------------------------------------------------------------------------
\* _grouping_node and _ai_grouping_agent.

\* item = {"image_index", "pricing", "classification", "vision"} built from a pricing result.
ItemOf(pricing_result) ==
    [image_index |-> pricing_result.image_index,
     pricing |-> pricing_result,
     classification |-> pricing_result.source_classification,
     vision |-> pricing_result.source_classification.source_vision]

AllItems(prs) == [k \in 1..Len(prs) |-> ItemOf(prs[k])]

\* The grouping answers of the language model for n images.  An answer is the
\* call raising, a reply without a "groups" list, or a list of groups, each with
\* an image_indices list over 0..n (n is out of range) and a group_id.
\* The lists of one answer hold at most `budget` indices in all (an empty list
\* counts as one).
RECURSIVE IndexGroupings(_, _)
IndexGroupings(budget, indices) ==
    LET Cost(k) == IF k = 0 THEN 1 ELSE k
    IN  {<<>>} \cup
        UNION {{<<g>> \o rest : g \in [1..k -> indices],
                                rest \in IndexGroupings(budget - Cost(k), indices)}
               : k \in {j \in 0..budget : Cost(j) <= budget}}

\* How an answer names its groups: "positional" is group_0, group_1, ... as in the
\* prompt's example, "same" repeats group_0, "absent" leaves the key out.
GroupIdSchemes == {"positional", "same", "absent"}

AnswerGroupId(scheme, k) ==
    CASE scheme = "positional" -> "group_" \o ToString(k - 1)
      [] scheme = "same" -> "group_0"
      [] OTHER -> NoValue

HolisticAnswersFor ==
    [n \in 0..MaxFiles |->
        {[kind |-> "raise"], [kind |-> "nogroups"]} \cup
        {[kind |-> "groups",
          groups |-> [k \in 1..Len(gs) |->
                        [group_id |-> AnswerGroupId(scheme, k), image_indices |-> gs[k]]]]
         : gs \in IndexGroupings(MaxAnswerIndices, 0..n), scheme \in GroupIdSchemes}]

\* A group in the format of the workflow, built from its items and its id.
MakeGroup(group_id, group_items) ==
    [group_id |-> group_id,
     primary_category |-> group_items[1].classification.category,
     style |-> group_items[1].classification.style,
     all_items |-> group_items,
     total_price |-> SumSeq([k \in 1..Len(group_items) |-> group_items[k].pricing.suggested_price]),
     avg_confidence |-> <<SumSeq([k \in 1..Len(group_items) |->
                                    group_items[k].classification.classification_confidence]),
                          Len(group_items)>>,
     avg_price |-> SumSeq([k \in 1..Len(group_items) |-> group_items[k].pricing.suggested_price])
                      \div Len(group_items)]

\* group_items = [all_items[idx] for idx in image_indices if idx < len(all_items)]
GroupItems(all_items, image_indices) ==
    LET kept == SelectSeq(image_indices, LAMBDA idx : idx < Len(all_items))
    IN  [k \in 1..Len(kept) |-> PyIndex(all_items, kept[k])]

\* The conversion loop of _ai_grouping_agent over grouping_result["groups"]:
\* a group without indices, or whose indices are all out of range, is skipped.
RECURSIVE ConvertGroups(_, _, _)
ConvertGroups(all_items, ai_groups, groups) ==
    IF ai_groups = <<>> THEN groups
    ELSE LET ai_group == Head(ai_groups)
             group_items == GroupItems(all_items, ai_group.image_indices)
             group_id == IF ai_group.group_id = NoValue
                         THEN "group_" \o ToString(Len(groups))
                         ELSE ai_group.group_id
         IN  IF ai_group.image_indices = <<>> \/ group_items = <<>>
             THEN ConvertGroups(all_items, Tail(ai_groups), groups)
             ELSE ConvertGroups(all_items, Tail(ai_groups),
                                Append(groups, MakeGroup(group_id, group_items)))

\* _ai_grouping_agent: raises on a failed call or a reply without "groups",
\* and returns the converted groups otherwise.
AiGroupingAgent(all_items, answer) ==
    IF answer.kind \in {"raise", "nogroups"}
    THEN [raised |-> TRUE, groups |-> <<>>]
    ELSE [raised |-> FALSE, groups |-> ConvertGroups(all_items, answer.groups, <<>>)]

\* The except branch of _grouping_node: one group per item, group_{i}.
IndividualGroups(all_items) ==
    [k \in 1..Len(all_items) |-> MakeGroup("group_" \o ToString(k - 1), <<all_items[k]>>)]


----------------------------------------------------------------------------
\* _listing_generation_node, _ai_listing_generator and _prepare_image_data.

\* images of a group: one entry per item, id "{group_id}_{i}", filename of the item's image.
PrepareImageData(group) ==
    [k \in 1..Len(group.all_items) |->
        [id |-> group.group_id \o "_" \o ToString(k - 1),
         filename |-> group.all_items[k].vision.image_path]]

\* Outcomes of generating one group's listing: the model's listing ("ok"), the
\* generator's own except branch ("generator_fallback", no error is logged), or an
\* exception that reaches the node's except branch ("fail").
ListingOutcomes == {"ok", "generator_fallback", "fail"}

AiListingTitle(outcome, group) ==
    IF outcome = "ok" THEN "Modern Blue Ergonomic Office Chair - Like New Condition!"
    ELSE group.style \o " Furniture - Great Condition"

GeneratedListing(outcome, group) ==
    [id |-> group.group_id,
     title |-> AiListingTitle(outcome, group),
     price |-> group.avg_price,
     confidence |-> group.avg_confidence,
     images |-> PrepareImageData(group),
     analysis_source |-> "LANGGRAPH_WORKFLOW",
     error |-> FALSE]

FallbackListing(group) ==
    [id |-> group.group_id,
     title |-> "Quality " \o group.primary_category,
     price |-> 100,
     confidence |-> <<30, 1>>,
     images |-> PrepareImageData(group),
     analysis_source |-> "LANGGRAPH_WORKFLOW",
     error |-> TRUE]

ListingFor(outcome, group) ==
    IF outcome = "fail" THEN FallbackListing(group) ELSE GeneratedListing(outcome, group)

RECURSIVE ListingErrors(_, _, _)
ListingErrors(outcomes, groups, k) ==
    IF k > Len(groups) THEN <<>>
    ELSE (IF outcomes[k] = "fail"
          THEN <<[stage |-> "listing_generation", group |-> groups[k].group_id]>>
          ELSE <<>>) \o ListingErrors(outcomes, groups, k + 1)


----------------------------------------------------------------------------
\* The workflow of LangGraphFurnitureClassifier: initialize -> vision_analysis ->
\* classification -> pricing -> grouping -> listing_generation -> finalize -> END.

NoResult == [kind |-> "none"]
NoAnswer == [kind |-> "none"]

\* process_furniture_images: the initial FurnitureAnalysisState and the entry point.
StartWorkflow(paths) ==
    /\ image_paths' = paths
    /\ vision_results' = <<>>
    /\ classification_results' = <<>>
    /\ pricing_results' = <<>>
    /\ furniture_groups' = <<>>
    /\ final_listings' = <<>>
    /\ current_step' = "initialize"
    /\ errors' = <<>>
    /\ processing_complete' = FALSE
    /\ total_images' = Len(paths)
    /\ node' = "initialize"
    /\ grouping_trace' = [strategy |-> "none", answer |-> NoAnswer]

InitializeProcessing ==
    /\ node = "initialize"
    /\ vision_results' = <<>>
    /\ classification_results' = <<>>
    /\ pricing_results' = <<>>
    /\ furniture_groups' = <<>>
    /\ final_listings' = <<>>
    /\ current_step' = "vision_analysis"
    /\ errors' = <<>>
    /\ processing_complete' = FALSE
    /\ total_images' = Len(image_paths)
    /\ node' = "vision_analysis"
    /\ UNCHANGED <<entry, envVars, beVars, agVars, image_paths, grouping_trace, result, epVars>>

\* The three per-image nodes.  `outcome_lists` holds the outcome lists the node may
\* meet for its calls, one outcome per image.
\* A vision node where a failing call adds no record.
VisionAnalysisNodeDroppingFailures(outcome_lists) ==
    /\ node = "vision_analysis"
    /\ \E outcomes \in outcome_lists :
         /\ vision_results' =
                SelectSeq([k \in 1..Len(image_paths) |->
                              VisionRecord(classifier_module, outcomes[k], k - 1, image_paths[k])],
                          LAMBDA record : "error" \notin DOMAIN record)
         /\ errors' = errors \o NodeErrors("vision_analysis", outcomes, 1, 1)
    /\ current_step' = "classification"
    /\ node' = "classification"
    /\ UNCHANGED <<entry, envVars, beVars, agVars, image_paths, classification_results,
                   pricing_results, furniture_groups, final_listings, processing_complete,
                   total_images, grouping_trace, result, epVars>>

VisionAnalysisNode(outcome_lists) ==
    /\ node = "vision_analysis"
    /\ \E outcomes \in outcome_lists :
         /\ vision_results' = [k \in 1..Len(image_paths) |->
                                  VisionRecord(classifier_module, outcomes[k], k - 1, image_paths[k])]
         /\ errors' = errors \o NodeErrors("vision_analysis", outcomes, 1, 1)
    /\ current_step' = "classification"
    /\ node' = "classification"
    /\ UNCHANGED <<entry, envVars, beVars, agVars, image_paths, classification_results,
                   pricing_results, furniture_groups, final_listings, processing_complete,
                   total_images, grouping_trace, result, epVars>>

\* The vision node inside a client.chat.completions.create call that never returns.
\* The call is made with no timeout and nothing around it cuts it off: the node
\* stays in the call, and the results collected so far stay in its local list.
VisionCallNeverReturns ==
    /\ node = "vision_analysis"
    /\ Len(image_paths) >= 1
    /\ node' = "vision_analysis_in_call"
    /\ UNCHANGED <<entry, envVars, beVars, agVars, wfData, result, epVars>>

\* A classification node where a failing call adds no record.
ClassificationNodeDroppingFailures(outcome_lists) ==
    /\ node = "classification"
    /\ \E outcomes \in outcome_lists :
         /\ classification_results' =
                SelectSeq([k \in 1..Len(vision_results) |->
                              ClassificationRecord(outcomes[k], vision_results[k])],
                          LAMBDA record : "error" \notin DOMAIN record)
         /\ errors' = errors \o NodeErrors("classification", outcomes, 1, 0)
    /\ current_step' = "pricing"
    /\ node' = "pricing"
    /\ UNCHANGED <<entry, envVars, beVars, agVars, image_paths, vision_results,
                   pricing_results, furniture_groups, final_listings, processing_complete,
                   total_images, grouping_trace, result, epVars>>

ClassificationNode(outcome_lists) ==
    /\ node = "classification"
    /\ \E outcomes \in outcome_lists :
         /\ classification_results' = [k \in 1..Len(vision_results) |->
                                          ClassificationRecord(outcomes[k], vision_results[k])]
         /\ errors' = errors \o NodeErrors("classification", outcomes, 1, 0)
    /\ current_step' = "pricing"
    /\ node' = "pricing"
    /\ UNCHANGED <<entry, envVars, beVars, agVars, image_paths, vision_results,
                   pricing_results, furniture_groups, final_listings, processing_complete,
                   total_images, grouping_trace, result, epVars>>

PricingNode(outcome_lists) ==
    /\ node = "pricing"
    /\ \E outcomes \in outcome_lists :
         /\ pricing_results' = [k \in 1..Len(classification_results) |->
                                   PricingRecord(classifier_module, outcomes[k], classification_results[k])]
         /\ errors' = errors \o NodeErrors("pricing", outcomes, 1, 0)
    /\ current_step' = "grouping"
    /\ node' = "grouping"
    /\ UNCHANGED <<entry, envVars, beVars, agVars, image_paths, vision_results,
                   classification_results, furniture_groups, final_listings,
                   processing_complete, total_images, grouping_trace, result, epVars>>

\* _grouping_node.  With no item at all, all_items[0] raises IndexError outside any
\* try block: the node raises and the workflow run ends in the except branch of
\* process_furniture_images.
GroupingNode ==
    /\ node = "grouping"
    /\ classifier_module = "root"
    /\ LET all_items == AllItems(pricing_results)
       IN  IF Len(all_items) = 0
           THEN /\ node' = "raised"
                /\ grouping_trace' = [strategy |-> "raised", answer |-> NoAnswer]
                /\ UNCHANGED <<furniture_groups, current_step>>
           ELSE /\ node' = "listing_generation"
                /\ current_step' = "listing_generation"
                /\ IF Len(all_items) = 1
                   THEN /\ furniture_groups' = <<MakeGroup("group_0", all_items)>>
                        /\ grouping_trace' = [strategy |-> "single", answer |-> NoAnswer]
                   ELSE \E answer \in HolisticAnswersFor[Len(all_items)] :
                          LET r == AiGroupingAgent(all_items, answer)
                          IN  /\ furniture_groups' =
                                    IF r.raised THEN IndividualGroups(all_items) ELSE r.groups
                              /\ grouping_trace' =
                                    [strategy |-> IF r.raised THEN "individual" ELSE "holistic",
                                     answer |-> answer]
    /\ UNCHANGED <<entry, envVars, beVars, agVars, image_paths, vision_results,
                   classification_results, pricing_results, final_listings, errors,
                   processing_complete, total_images, result, epVars>>

\* A listing node whose loop ends at the first group whose listing fails.
ListingGenerationNodeStoppingAtFailure(outcome_lists) ==
    /\ node = "listing_generation"
    /\ \E outcomes \in outcome_lists :
         /\ final_listings' =
                [k \in 1..Cardinality({j \in 1..Len(furniture_groups) :
                                         \A i \in 1..j : outcomes[i] # "fail"}) |->
                    ListingFor(outcomes[k], furniture_groups[k])]
         /\ errors' = errors \o ListingErrors(outcomes, furniture_groups, 1)
    /\ current_step' = "finalize"
    /\ node' = "finalize"
    /\ UNCHANGED <<entry, envVars, beVars, agVars, image_paths, vision_results,
                   classification_results, pricing_results, furniture_groups,
                   processing_complete, total_images, grouping_trace, result, epVars>>

ListingGenerationNode(outcome_lists) ==
    /\ node = "listing_generation"
    /\ \E outcomes \in outcome_lists :
         /\ final_listings' = [k \in 1..Len(furniture_groups) |->
                                  ListingFor(outcomes[k], furniture_groups[k])]
         /\ errors' = errors \o ListingErrors(outcomes, furniture_groups, 1)
    /\ current_step' = "finalize"
    /\ node' = "finalize"
    /\ UNCHANGED <<entry, envVars, beVars, agVars, image_paths, vision_results,
                   classification_results, pricing_results, furniture_groups,
                   processing_complete, total_images, grouping_trace, result, epVars>>

FinalizeResults ==
    /\ node = "finalize"
    /\ processing_complete' = TRUE
    /\ node' = "END"
    /\ UNCHANGED <<entry, envVars, beVars, agVars, image_paths, vision_results,
                   classification_results, pricing_results, furniture_groups, final_listings,
                   current_step, errors, total_images, grouping_trace, result, epVars>>

\* process_furniture_images after ainvoke: the response dictionary, or the except branch.
ProcessFurnitureImagesReturn ==
    /\ node \in {"END", "raised"}
    /\ result' = IF node = "END"
                 THEN [kind |-> "workflow",
                       success |-> TRUE,
                       total_images |-> total_images,
                       total_furniture_items |-> Len(final_listings),
                       listings |-> final_listings,
                       classification_method |-> "LANGGRAPH_WORKFLOW",
                       errors |-> errors,
                       workflow_complete |-> processing_complete]
                 ELSE [kind |-> "workflow",
                       success |-> FALSE,
                       total_images |-> Len(image_paths),
                       total_furniture_items |-> 0,
                       listings |-> <<>>,
                       classification_method |-> "LANGGRAPH_WORKFLOW",
                       errors |-> <<>>,
                       workflow_complete |-> FALSE]
    /\ node' = "returned"
    /\ UNCHANGED <<entry, envVars, beVars, agVars, image_paths, vision_results,
                   classification_results, pricing_results, furniture_groups, final_listings,
                   current_step, errors, processing_complete, total_images, grouping_trace,
                   epVars>>


----------------------------------------------------------------------------
\* main.py, _calculate_title_similarity.  A title is the list of its words
\* (str.split); similarities are exact fractions <<numerator, denominator>>.

\* str.lower on the words the model uses.
Lower(w) ==
    CASE w = "Quality" -> "quality" [] w = "Furniture" -> "furniture" [] w = "Item" -> "item"
      [] w = "Blue" -> "blue" [] w = "Navy" -> "navy" [] w = "Modern" -> "modern"
      [] w = "Contemporary" -> "contemporary" [] w = "Chair" -> "chair"
      [] w = "Armchair" -> "armchair" [] w = "Oak" -> "oak" [] w = "Desk" -> "desk"
      [] w = "Home" -> "home" [] w = "Garden" -> "garden"
      [] w = "Table" -> "table" [] w = "Brown" -> "brown" [] w = "Wood" -> "wood"
      [] w = "Office" -> "office" [] w = "Dining" -> "dining" [] w = "Unknown" -> "unknown"
      [] OTHER -> w

LowerTitle(title) == [k \in 1..Len(title) |-> Lower(title[k])]

\* {**color_groups, **furniture_synonyms, **style_synonyms} in insertion order:
\* the first group that holds the word names it.
synonym_groups ==
    << <<"white", {"white", "off-white", "ivory", "cream", "beige", "ecru", "alabaster"}>>,
       <<"brown", {"brown", "tan", "coffee", "mocha", "chocolate", "chestnut", "mahogany", "walnut"}>>,
       <<"gray", {"gray", "grey", "silver", "charcoal", "slate", "ash", "pewter"}>>,
       <<"black", {"black", "ebony", "onyx", "jet", "coal"}>>,
       <<"red", {"red", "burgundy", "wine", "cherry", "crimson", "maroon", "rust", "reddish"}>>,
       <<"blue", {"blue", "navy", "teal", "turquoise", "indigo", "cerulean"}>>,
       <<"green", {"green", "olive", "sage", "forest", "emerald", "mint"}>>,
       <<"wood", {"wood", "wooden", "oak", "pine", "cedar", "birch", "maple", "teak", "bamboo"}>>,
       <<"sofa", {"sofa", "couch", "sectional", "loveseat", "settee", "divan"}>>,
       <<"chair", {"chair", "armchair", "recliner", "rocker", "stool"}>>,
       <<"table", {"table", "desk", "bureau", "workstation", "console"}>>,
       <<"bed", {"bed", "mattress", "headboard", "footboard", "bedframe"}>>,
       <<"storage", {"dresser", "cabinet", "wardrobe", "armoire", "chest", "hutch", "bookshelf"}>>,
       <<"desk", {"desk", "writing desk", "computer desk", "workstation", "study desk", "office desk"}>>,
       <<"modern", {"modern", "contemporary", "minimalist", "sleek", "streamlined"}>>,
       <<"traditional", {"traditional", "classic", "vintage", "antique", "heritage"}>>,
       <<"rustic", {"rustic", "farmhouse", "country", "distressed", "weathered"}>>,
       <<"industrial", {"industrial", "metal", "steel", "iron", "pipe"}>>,
       <<"mission", {"mission", "craftsman", "arts and crafts", "stickley"}>> >>

\* normalize_with_synonyms for one word.
NormalizeWord(word) ==
    LET hits == {g \in 1..Len(synonym_groups) : word \in synonym_groups[g][2]}
    IN  IF hits = {} THEN word
        ELSE synonym_groups[CHOOSE g \in hits : \A h \in hits : g <= h][1]

stop_words == {"the", "a", "an", "and", "or", "but", "in", "on", "at", "to", "for", "of", "with", "by", "from"}

\* The words of one character among the words the model uses (len(word) > 1 drops them).
OneCharWords == {"1", "2", "3", "4", "5", "6", "7", "8", "9", "a"}

furniture_terms == {"sofa", "chair", "table", "bed", "dresser", "bookshelf", "desk", "cabinet"}
style_terms == {"modern", "traditional", "rustic", "industrial", "mission"}
desk_terms == {"desk", "writing", "computer", "office", "study"}

\* words1 / words2: the normalized words that are no stop word and longer than one character.
TitleWords(lowered) ==
    {NormalizeWord(lowered[k]) : k \in 1..Len(lowered)} \ (stop_words \cup OneCharWords)

\* boost_factor as a fraction: 1.5, 1.2, 1.4 and 0.3 multiply in.  furniture1 and
\* style1 are taken from the normalized words, desk_terms1 from the words as typed.
BoostFactor(furniture1, furniture2, style1, style2, desk_terms1, desk_terms2) ==
    LET same_type == furniture1 # {} /\ furniture2 # {} /\ furniture1 = furniture2
        same_style == style1 # {} /\ style2 # {} /\ style1 = style2
        both_desks == "desk" \in desk_terms1 /\ "desk" \in desk_terms2
        different_type == furniture1 # {} /\ furniture2 # {} /\ furniture1 \cap furniture2 = {}
    IN  << (IF same_type THEN 3 ELSE 1) * (IF same_style THEN 6 ELSE 1)
             * (IF both_desks THEN 7 ELSE 1) * (IF different_type THEN 3 ELSE 1),
           (IF same_type THEN 2 ELSE 1) * (IF same_style THEN 5 ELSE 1)
             * (IF both_desks THEN 5 ELSE 1) * (IF different_type THEN 10 ELSE 1) >>

TitleBoost(words1, words2, lowered1, lowered2) ==
    BoostFactor(words1 \cap furniture_terms, words2 \cap furniture_terms,
                words1 \cap style_terms, words2 \cap style_terms,
                Range(lowered1) \cap desk_terms, Range(lowered2) \cap desk_terms)

\* min(1.0, jaccard_similarity * boost_factor)
BoostedJaccard(intersection, union, boost) ==
    IF intersection * boost[1] >= union * boost[2]
    THEN <<1, 1>>
    ELSE <<intersection * boost[1], union * boost[2]>>

WordSimilarity(words1, words2, lowered1, lowered2) ==
    IF words1 = {} \/ words2 = {} THEN <<0, 1>>
    ELSE BoostedJaccard(Cardinality(words1 \cap words2), Cardinality(words1 \cup words2),
                        TitleBoost(words1, words2, lowered1, lowered2))

LoweredSimilarity(lowered1, lowered2) ==
    IF lowered1 = <<>> \/ lowered2 = <<>> THEN <<0, 1>>
    ELSE IF lowered1 = lowered2 THEN <<1, 1>>
    ELSE WordSimilarity(TitleWords(lowered1), TitleWords(lowered2), lowered1, lowered2)

CalculateTitleSimilarity(title1, title2) ==
    LoweredSimilarity(LowerTitle(title1), LowerTitle(title2))

\* fraction >= tenths / 10
AtLeast(fraction, tenths) == 10 * fraction[1] >= tenths * fraction[2]

\* should_group of the grouping loop of auto_analyze_multiple_furniture.
ShouldGroup(title_similarity, category_match, both_desk) ==
    \/ AtLeast(title_similarity, 7)
    \/ (AtLeast(title_similarity, 6) /\ category_match)
    \/ (AtLeast(title_similarity, 5) /\ both_desk)

\* The code tests 'desk' as a substring of the lowered title; among the words used
\* here that is the word desk itself.
ShouldGroupTitles(group_title, group_category, other_title, other_category) ==
    ShouldGroup(CalculateTitleSimilarity(group_title, other_title),
                LowerTitle(group_category) = LowerTitle(other_category),
                "desk" \in Range(LowerTitle(group_title))
                    /\ "desk" \in Range(LowerTitle(other_title)))


----------------------------------------------------------------------------
\* main.py, auto_analyze_multiple_furniture.

\* len(files) > 15 is refused before anything is saved.
MaxBatch == 15

NoResponse == [kind |-> "none"]

\* What the agent fallback may produce for one image: the connection test or the
\* agents raise, or generate_enhanced_listing gives a title, a category and a price.
AgentAnswers ==
    {[kind |-> "ok", title |-> <<"Blue", "Modern", "Chair">>, category |-> <<"Chair">>, price |-> 120],
     [kind |-> "ok", title |-> <<"Navy", "Contemporary", "Armchair">>, category |-> <<"Chair">>, price |-> 150],
     [kind |-> "ok", title |-> <<"Oak", "Desk">>, category |-> <<"Desk">>, price |-> 200]}

AgentOutcomes == {CallFailed} \cup AgentAnswers

\* The listing of image i (0-based) at path: "real_ai_{i}" or the minimal "fallback_{i}".
AgentListing(outcome, i, path) ==
    IF outcome.kind = "fail"
    THEN [id |-> "fallback_" \o ToString(i),
          title |-> <<"Quality", "Furniture", "Item", ToString(i + 1)>>,
          price |-> 150,
          category |-> <<"Home & Garden//Furniture">>,
          confidence |-> <<50, 1>>,
          images |-> <<[id |-> "img_" \o ToString(i), filename |-> path]>>,
          analysis_source |-> "MINIMAL_FALLBACK",
          error |-> TRUE]
    ELSE [id |-> "real_ai_" \o ToString(i),
          title |-> outcome.title,
          price |-> outcome.price,
          category |-> outcome.category,
          confidence |-> <<70, 1>>,
          images |-> <<[id |-> "img_" \o ToString(i), filename |-> path]>>,
          analysis_source |-> "REAL_AI_ANALYSIS",
          error |-> FALSE]

\* The inner loop of the grouping: the later, unprocessed listings that join the
\* group seeded by listing i.  acc = [indices, images, price]; group_images is the
\* seed's own images list, which extend() grows in place.
RECURSIVE AbsorbSimilar(_, _, _, _, _)
AbsorbSimilar(listings, i, j, processed, acc) ==
    IF j > Len(listings) THEN acc
    ELSE IF j <= i \/ j \in processed
         THEN AbsorbSimilar(listings, i, j + 1, processed, acc)
         ELSE IF ShouldGroupTitles(listings[i].title, listings[i].category,
                                   listings[j].title, listings[j].category)
              THEN AbsorbSimilar(listings, i, j + 1, processed,
                       [indices |-> Append(acc.indices, j),
                        images |-> acc.images \o listings[j].images,
                        price |-> IF listings[j].price # 150 /\ acc.price = 150
                                  THEN listings[j].price ELSE acc.price])
              ELSE AbsorbSimilar(listings, i, j + 1, processed, acc)

\* grouped_listing = listing.copy() with the group's id, images and price.
GroupedListing(listing, acc, position) ==
    [id |-> "grouped_" \o ToString(position),
     title |-> listing.title,
     price |-> acc.price,
     category |-> listing.category,
     confidence |-> listing.confidence,
     images |-> acc.images,
     analysis_source |-> listing.analysis_source,
     error |-> FALSE]

\* The outer loop.  Returns the grouped listings and result["listings"] as the
\* loop leaves it (a seed's images list has been extended in place).
RECURSIVE GroupSimilarListings(_, _, _, _)
GroupFrom(listings, i, processed, grouped, acc) ==
    GroupSimilarListings([listings EXCEPT ![i].images = acc.images], i + 1,
                         processed \cup Range(acc.indices),
                         Append(grouped, GroupedListing(listings[i], acc, Len(grouped))))

GroupSimilarListings(listings, i, processed, grouped) ==
    IF i > Len(listings) THEN [grouped |-> grouped, listings |-> listings]
    ELSE IF i \in processed THEN GroupSimilarListings(listings, i + 1, processed, grouped)
    ELSE GroupFrom(listings, i, processed, grouped,
                   AbsorbSimilar(listings, i, 1, processed,
                                 [indices |-> <<i>>, images |-> listings[i].images,
                                  price |-> listings[i].price]))

\* "Process images for display": an image stays when its filename is one of the saved paths.
ProcessImages(listings, paths) ==
    [k \in 1..Len(listings) |->
        [listings[k] EXCEPT !.images =
            SelectSeq(listings[k].images, LAMBDA image_info : image_info.filename \in Range(paths))]]

\* The request: the image files are saved; no image at all raises HTTPException(400)
\* inside the try block, which the handler's own except branch turns into an error
\* dictionary.  Then the classifier runs, or the agent fallback when LangGraph is
\* not available.  The classify_and_group_photos of src/backend/furniture_classifier.py
\* is the synchronous wrapper: called in the running event loop its
\* run_until_complete raises, and the handler goes to the agent fallback too.
SaveUploads ==
    /\ node = "request"
    /\ entry' = "endpoint"
    /\ IF Len(files) > MaxBatch
       THEN /\ response' = [kind |-> "http_error", status_code |-> 400, success |-> FALSE,
                            listings |-> <<>>, has_errors |-> FALSE, errors |-> <<>>]
            /\ node' = "done"
            /\ UNCHANGED <<saved_paths, wfData>>
       ELSE LET paths == ImagePathsFrom(files, 0)
            IN  /\ saved_paths' = paths
                /\ IF paths = <<>>
                   THEN /\ response' = [kind |-> "error_dict", status_code |-> 200,
                                        success |-> FALSE, listings |-> <<>>,
                                        has_errors |-> FALSE, errors |-> <<>>]
                        /\ node' = "done"
                        /\ UNCHANGED wfData
                   ELSE /\ UNCHANGED response
                        /\ IF LANGGRAPH_AVAILABLE /\ classifier_module = "root"
                           THEN StartWorkflow(paths)
                           ELSE /\ node' = "agents"
                                /\ UNCHANGED wfData
    /\ UNCHANGED <<envVars, beVars, agVars, result, agent_listings>>


\* A direct call of classify_and_group_photos with at most max_files paths, as
\* /api/test-langgraph makes with one path, or a script with any list (an empty
\* one too), for the classifier modules given.
DirectCall(max_files, modules) ==
    /\ node = "request"
    /\ LANGGRAPH_AVAILABLE
    /\ classifier_module \in modules
    /\ Len(files) <= max_files
    /\ entry' = "classifier"
    /\ StartWorkflow(ImagePathsFrom(files, 0))
    /\ UNCHANGED <<envVars, beVars, agVars, result, epVars>>

\* After the classifier returned: a successful result is answered, with the keys
\* status, total_time, method, listings, total_images, total_furniture_items and
\* classification_method; an unsuccessful one raises into the agent fallback.
AnswerWorkflowResult ==
    /\ node = "returned"
    /\ entry = "endpoint"
    /\ IF result.success
       THEN /\ response' = [kind |-> "success", status_code |-> 200, success |-> TRUE,
                            listings |-> ProcessImages(result.listings, saved_paths),
                            has_errors |-> FALSE, errors |-> <<>>]
            /\ node' = "done"
       ELSE /\ node' = "agents"
            /\ UNCHANGED response
    /\ UNCHANGED <<entry, envVars, beVars, agVars, wfData, result, saved_paths, agent_listings>>

\* The agent fallback, one listing per saved path; when ai_agent_system cannot be
\* imported, the "simple" listings are answered at once.
AgentAnalysis(outcome_lists) ==
    /\ node = "agents"
    /\ \/ \E outcomes \in outcome_lists :
            /\ agent_listings' = [k \in 1..Len(saved_paths) |->
                                     AgentListing(outcomes[k], k - 1, saved_paths[k])]
            /\ result' = [kind |-> "agents",
                          success |-> TRUE,
                          total_images |-> Len(saved_paths),
                          total_furniture_items |-> Len(saved_paths),
                          listings |-> <<>>,
                          classification_method |-> "REAL_AI_ANALYSIS",
                          errors |-> NodeErrors("agent_analysis", outcomes, 1, 0),
                          workflow_complete |-> FALSE]
            /\ node' = "title_grouping"
            /\ UNCHANGED response
       \/ LET simple == [k \in 1..Len(saved_paths) |->
                           [id |-> "simple_" \o ToString(k - 1),
                            title |-> <<"Quality", "Furniture", "Item", ToString(k)>>,
                            price |-> 150,
                            category |-> <<"Home & Garden//Furniture">>,
                            confidence |-> <<60, 1>>,
                            images |-> <<[id |-> "img_" \o ToString(k - 1),
                                          filename |-> saved_paths[k]]>>,
                            analysis_source |-> "SIMPLE_FALLBACK",
                            error |-> FALSE]]
          IN  /\ agent_listings' = simple
              /\ result' = [kind |-> "simple",
                            success |-> TRUE,
                            total_images |-> Len(saved_paths),
                            total_furniture_items |-> Len(saved_paths),
                            listings |-> simple,
                            classification_method |-> "SIMPLE_FALLBACK",
                            errors |-> <<[stage |-> "langgraph", image |-> 0],
                                         [stage |-> "import", image |-> 0]>>,
                            workflow_complete |-> FALSE]
              /\ response' = [kind |-> "success", status_code |-> 200, success |-> TRUE,
                              listings |-> ProcessImages(simple, saved_paths),
                              has_errors |-> TRUE,
                              errors |-> <<[stage |-> "langgraph", image |-> 0],
                                           [stage |-> "import", image |-> 0]>>]
              /\ node' = "done"
    /\ UNCHANGED <<entry, envVars, beVars, agVars, wfData, saved_paths>>

\* "GROUP SIMILAR FURNITURE TOGETHER" and the answer: result["listings"] becomes the
\* grouped listings and the response is the result with system_info added.
GroupAndAnswer ==
    /\ node = "title_grouping"
    /\ \E g \in {GroupSimilarListings(agent_listings, 1, {}, <<>>)} :
           /\ agent_listings' = g.listings
           /\ result' = [result EXCEPT !.listings = g.grouped,
                                       !.total_furniture_items = Len(g.grouped)]
           /\ response' = [kind |-> "success", status_code |-> 200, success |-> TRUE,
                           listings |-> ProcessImages(g.grouped, saved_paths),
                           has_errors |-> TRUE, errors |-> result.errors]
    /\ node' = "done"
    /\ UNCHANGED <<entry, envVars, beVars, agVars, wfData, saved_paths>>

----------------------------------------------------------------------------
\* Python floats (IEEE 754 binary64) as far as the scorer of visual_grouping.py
\* uses them: finite values far from overflow and underflow, rounded to nearest,
\* ties to even.  A natural number is the list of its limbs of LimbBits bits,
\* lowest first.  A float is a sign, a significand of exactly 53 bits (the empty
\* list for 0.0) and the exponent of the lowest bit of the significand: its value
\* is (-1)^neg * sig * 2^exp.

LimbBits == 15

\* a + sign * b + carry, from limb i on (sign is 1 or -1; a >= b when it is -1).
RECURSIVE AddBig(_, _, _, _, _)
AddBig(a, b, sign, i, carry) ==
    IF i > Len(a) /\ i > Len(b) THEN (IF carry = 0 THEN <<>> ELSE <<carry>>)
    ELSE LET digit == (IF i <= Len(a) THEN a[i] ELSE 0)
                      + sign * (IF i <= Len(b) THEN b[i] ELSE 0) + carry + 2^LimbBits
         IN  <<digit % 2^LimbBits>> \o AddBig(a, b, sign, i + 1, (digit \div 2^LimbBits) - 1)

\* a * d + carry for one limb d, from limb i on.
RECURSIVE MulSmall(_, _, _, _)
MulSmall(a, d, i, carry) ==
    IF i > Len(a) THEN (IF carry = 0 THEN <<>> ELSE <<carry>>)
    ELSE <<(a[i] * d + carry) % 2^LimbBits>>
         \o MulSmall(a, d, i + 1, (a[i] * d + carry) \div 2^LimbBits)

\* a * b, from limb i of a on.
RECURSIVE MulBig(_, _, _)
MulBig(a, b, i) ==
    IF i > Len(a) THEN <<>>
    ELSE AddBig(MulSmall(b, a[i], 1, 0), <<0>> \o MulBig(a, b, i + 1), 1, 1, 0)

\* floor(n / d) and n % d for a divisor of one limb, from limb i down.
RECURSIVE DivSmall(_, _, _, _)
DivSmall(n, d, i, rem) ==
    IF i = 0 THEN [quot |-> <<>>, rem |-> rem]
    ELSE LET rest == DivSmall(n, d, i - 1, (rem * 2^LimbBits + n[i]) % d)
         IN  [quot |-> Append(rest.quot, (rem * 2^LimbBits + n[i]) \div d), rem |-> rest.rem]

\* n * 2^s
ShiftLeft(n, s) ==
    [k \in 1..(s \div LimbBits) |-> 0] \o MulSmall(n, 2^(s % LimbBits), 1, 0)

\* The float nearest to (-1)^neg * n * 2^exp; sticky tells that the exact value is
\* a little more than n * 2^exp.
RoundFloat(neg, n, exp, sticky) ==
    LET Significand == 53
        Trim(m) == SubSeq(m, 1, Cardinality({i \in 1..Len(m) : \E j \in i..Len(m) : m[j] # 0}))
        BitLength(m) ==
            IF m = <<>> THEN 0
            ELSE LimbBits * (Len(m) - 1)
                 + Cardinality({k \in 0..(LimbBits - 1) : 2^k <= m[Len(m)]})
        Bit(m, i) ==
            IF (i \div LimbBits) + 1 > Len(m) THEN 0
            ELSE (m[(i \div LimbBits) + 1] \div 2^(i % LimbBits)) % 2
        ShiftRight(m, s) ==
            Trim([i \in 1..(Len(m) - (s \div LimbBits)) |->
                    (m[i + (s \div LimbBits)] \div 2^(s % LimbBits))
                    + ((IF i + (s \div LimbBits) + 1 <= Len(m)
                        THEN m[i + (s \div LimbBits) + 1] ELSE 0) % 2^(s % LimbBits))
                      * 2^(LimbBits - (s % LimbBits))])
        RoundOff(m, s) ==
            IF s <= 0
            THEN [neg |-> neg, sig |-> ShiftLeft(m, 0 - s), exp |-> exp + s]
            ELSE IF /\ Bit(m, s - 1) = 1
                    /\ (sticky \/ Bit(m, s) = 1 \/ \E i \in 0..(s - 2) : Bit(m, i) = 1)
                 THEN IF BitLength(AddBig(ShiftRight(m, s), <<1>>, 1, 1, 0)) > Significand
                      THEN [neg |-> neg,
                            sig |-> ShiftRight(AddBig(ShiftRight(m, s), <<1>>, 1, 1, 0), 1),
                            exp |-> exp + s + 1]
                      ELSE [neg |-> neg,
                            sig |-> AddBig(ShiftRight(m, s), <<1>>, 1, 1, 0),
                            exp |-> exp + s]
                 ELSE [neg |-> neg, sig |-> ShiftRight(m, s), exp |-> exp + s]
    IN  IF Trim(n) = <<>> THEN [neg |-> FALSE, sig |-> <<>>, exp |-> 0]
        ELSE RoundOff(Trim(n), BitLength(Trim(n)) - Significand)

\* k / n for two small ints, 0 <= k and 0 < n; also the float of the literal k/n.
\* The quotient floor(k * 2^64 / n) has the bits that rounding k / n needs.
FloatDiv(k, n) ==
    LET q == DivSmall(ShiftLeft(<<k>>, 64), n, Len(ShiftLeft(<<k>>, 64)), 0)
    IN  RoundFloat(FALSE, q.quot, -64, q.rem # 0)

FloatMul(a, b) == RoundFloat(a.neg # b.neg, MulBig(a.sig, b.sig, 1), a.exp + b.exp, FALSE)

\* a + b: the significands are brought to the lower exponent, then added, or the
\* smaller one subtracted from the larger one.
FloatAdd(a, b) ==
    LET low == IF a.exp <= b.exp THEN a.exp ELSE b.exp
        n1 == ShiftLeft(a.sig, a.exp - low)
        n2 == ShiftLeft(b.sig, b.exp - low)
        larger1 == \/ Len(n1) > Len(n2)
                   \/ /\ Len(n1) = Len(n2)
                      /\ \/ n1 = n2
                         \/ \E i \in 1..Len(n1) :
                               n1[i] > n2[i] /\ \A j \in (i + 1)..Len(n1) : n1[j] = n2[j]
    IN  IF a.sig = <<>> THEN (IF b.sig = <<>> THEN [neg |-> FALSE, sig |-> <<>>, exp |-> 0] ELSE b)
        ELSE IF b.sig = <<>> THEN a
        ELSE IF a.neg = b.neg THEN RoundFloat(a.neg, AddBig(n1, n2, 1, 1, 0), low, FALSE)
        ELSE IF larger1 THEN RoundFloat(a.neg, AddBig(n1, n2, -1, 1, 0), low, FALSE)
        ELSE RoundFloat(b.neg, AddBig(n2, n1, -1, 1, 0), low, FALSE)

FloatSub(a, b) == FloatAdd(a, [b EXCEPT !.neg = ~b.neg])

\* a >= b
FloatGE(a, b) == ~FloatSub(a, b).neg

\* sum() over floats, after the first item was added to the int 0.  Before Python
\* 3.12 it adds from left to right; from 3.12 on it also carries the rounding
\* errors in a compensation c (Neumaier), which it adds at the end when it is not 0.
RECURSIVE PythonSum(_, _, _, _)
PythonSum(compensated, total, c, xs) ==
    IF xs = <<>> THEN (IF compensated /\ c.sig # <<>> THEN FloatAdd(total, c) ELSE total)
    ELSE PythonSum(compensated,
                   FloatAdd(total, Head(xs)),
                   IF ~compensated THEN c
                   ELSE IF FloatGE([total EXCEPT !.neg = FALSE], [Head(xs) EXCEPT !.neg = FALSE])
                   THEN FloatAdd(c, FloatAdd(FloatSub(total, FloatAdd(total, Head(xs))), Head(xs)))
                   ELSE FloatAdd(c, FloatAdd(FloatSub(Head(xs), FloatAdd(total, Head(xs))), total)),
                   Tail(xs))

----------------------------------------------------------------------------
\* visual_grouping.py: FurnitureAttributes and EnhancedGroupingAgent.
\* A text is the list of its words; none marks the Python value None, which a
\* model's JSON null leaves in a record.

MaxItems == 2

NoneText == [none |-> TRUE, words |-> <<>>]

Text(words) == [none |-> FALSE, words |-> words]

\* The items a caller may pass: item k-1 of the list has image_index k-1.
AgentItem(i, furniture_type, primary_color, material, style) ==
    [image_index |-> i,
     furniture_type |-> furniture_type,
     primary_color |-> primary_color,
     material |-> material,
     style |-> style,
     suggested_price |-> 100,
     classification_confidence |-> 50]

\* The furniture_type, primary_color, material and style of an item.
AgentAttributes ==
    {NoneText, Text(<<>>), Text(<<"Chair">>), Text(<<"Table">>)}
        \X {Text(<<>>), Text(<<"Blue">>), Text(<<"Brown">>)}
        \X {NoneText, Text(<<>>), Text(<<"Wood">>)}
        \X {Text(<<>>)}

\* The lists of at most max_items items.
AgentItemLists(max_items) ==
    UNION {{[k \in 1..n |-> AgentItem(k - 1, attrs[k][1], attrs[k][2], attrs[k][3], attrs[k][4])]
            : attrs \in [1..n -> AgentAttributes]} : n \in 0..max_items}

\* FurnitureAttributes.from_item calls .lower() on type, color, material and style:
\* it raises AttributeError when one of them is None.
FromItemRaises(item) ==
    item.furniture_type.none \/ item.primary_color.none \/ item.material.none \/ item.style.none

FromItem(item) ==
    [type |-> LowerTitle(item.furniture_type.words),
     color |-> LowerTitle(item.primary_color.words),
     material |-> LowerTitle(item.material.words),
     style |-> LowerTitle(item.style.words)]

\* A text_similarity whose partial credit is the share of the words of text1 that
\* text2 holds.
text_similarity_of_first(text1, text2) ==
    IF text1 = <<>> \/ text2 = <<>> THEN FloatDiv(0, 1)
    ELSE IF LowerTitle(text1) = LowerTitle(text2) THEN FloatDiv(1, 1)
    ELSE FloatDiv(Cardinality(Range(LowerTitle(text1)) \cap Range(LowerTitle(text2))),
                  Cardinality(Range(LowerTitle(text1))))

\* text_similarity of _calculate_furniture_similarity: 0.0 when one text is empty,
\* 1.0 when the lowered texts are equal, len(intersection) / len(union) of their
\* words otherwise.
text_similarity(text1, text2) ==
    IF text1 = <<>> \/ text2 = <<>> THEN FloatDiv(0, 1)
    ELSE IF LowerTitle(text1) = LowerTitle(text2) THEN FloatDiv(1, 1)
    ELSE FloatDiv(Cardinality(Range(LowerTitle(text1)) \cap Range(LowerTitle(text2))),
                  Cardinality(Range(LowerTitle(text1)) \cup Range(LowerTitle(text2))))

\* Weights that add up to more than 1.
weights_heavier == <<4, 3, 2, 2>>

\* The weights of furniture_type, color, material and style, in tenths.
weights == <<4, 3, 2, 1>>

\* sum(similarities[attr] * weights[attr] for attr in weights)
WeightedSum(s_type, s_color, s_material, s_style) ==
    PythonSum(compensated_sum,
              FloatMul(s_type, FloatDiv(weights[1], 10)),
              FloatDiv(0, 1),
              <<FloatMul(s_color, FloatDiv(weights[2], 10)),
                FloatMul(s_material, FloatDiv(weights[3], 10)),
                FloatMul(s_style, FloatDiv(weights[4], 10))>>)

CalculateFurnitureSimilarity(attr1, attr2) ==
    WeightedSum(text_similarity(attr1.type, attr2.type),
                text_similarity(attr1.color, attr2.color),
                text_similarity(attr1.material, attr2.material),
                text_similarity(attr1.style, attr2.style))

\* _create_group_from_items
CreateGroupFromItems(items, group_id) ==
    [group_id |-> group_id,
     all_items |-> items,
     total_price |-> SumSeq([k \in 1..Len(items) |-> items[k].suggested_price]),
     avg_confidence |-> <<SumSeq([k \in 1..Len(items) |-> items[k].classification_confidence]),
                          Len(items)>>,
     avg_price |-> SumSeq([k \in 1..Len(items) |-> items[k].suggested_price]) \div Len(items),
     ai_description |-> items[1].furniture_type]

\* _create_individual_groups
CreateIndividualGroups(items) ==
    [k \in 1..Len(items) |-> CreateGroupFromItems(<<items[k]>>, "single_" \o ToString(k - 1))]

\* An absorption that takes records of earlier groups again.
RECURSIVE AbsorbedByIgnoringUsed(_, _, _, _, _)
AbsorbedByIgnoringUsed(joins, i, j, n, used) ==
    IF j > n THEN <<>>
    ELSE (IF joins[i][j] THEN <<j>> ELSE <<>>)
         \o AbsorbedByIgnoringUsed(joins, i, j + 1, n, used)

\* The positions, in order, that the seed at position i absorbs among j..n:
\* those not used yet that the test `joins` accepts.
RECURSIVE AbsorbedBy(_, _, _, _, _)
AbsorbedBy(joins, i, j, n, used) ==
    IF j > n THEN <<>>
    ELSE (IF j \notin used /\ joins[i][j] THEN <<j>> ELSE <<>>)
         \o AbsorbedBy(joins, i, j + 1, n, used)

\* The greedy loop shared by _group_by_structured_comparison and _group_by_heuristics:
\* every position not used yet seeds a group named prefix + len(groups).
RECURSIVE GreedyGroups(_, _, _, _, _, _)
GreedyFrom(all_items, joins, prefix, i, used, groups, group_indices) ==
    GreedyGroups(all_items, joins, prefix, i + 1, used \cup Range(group_indices),
                 Append(groups,
                        CreateGroupFromItems([k \in 1..Len(group_indices) |->
                                                 all_items[group_indices[k]]],
                                             prefix \o ToString(Len(groups)))))

GreedyGroups(all_items, joins, prefix, i, used, groups) ==
    IF i > Len(all_items) THEN groups
    ELSE IF i \in used THEN GreedyGroups(all_items, joins, prefix, i + 1, used, groups)
    ELSE GreedyFrom(all_items, joins, prefix, i, used, groups,
                    <<i>> \o AbsorbedBy(joins, i, i + 1, Len(all_items), used))

\* A structured comparison whose threshold test is strict.
StructuredJoinsStrict(all_items) ==
    [i \in 1..Len(all_items) |-> [j \in 1..Len(all_items) |->
        \/ i = j
        \/ ~FloatGE(FloatDiv(7, 10),
                    CalculateFurnitureSimilarity(FromItem(all_items[i]), FromItem(all_items[j])))]]

\* similarity_matrix[i][j] >= threshold, threshold = 0.7; the diagonal is 1.0.
StructuredJoins(all_items) ==
    [i \in 1..Len(all_items) |-> [j \in 1..Len(all_items) |->
        \/ i = j
        \/ FloatGE(CalculateFurnitureSimilarity(FromItem(all_items[i]), FromItem(all_items[j])),
                   FloatDiv(7, 10))]]

\* _group_by_structured_comparison: [raised, groups]
GroupByStructuredComparison(all_items) ==
    IF \E k \in 1..Len(all_items) : FromItemRaises(all_items[k])
    THEN [raised |-> TRUE, groups |-> <<>>]
    ELSE [raised |-> FALSE,
          groups |-> GreedyGroups(all_items, StructuredJoins(all_items),
                                  "structured_group_", 1, {}, <<>>)]

furniture_synonyms ==
    << <<"seating", {"chair", "seat", "stool", "bench", "armchair", "recliner",
                     "rocker", "gaming chair", "office chair", "dining chair"}>>,
       <<"tables", {"table", "desk", "surface", "workstation", "console",
                    "coffee table", "dining table", "end table", "side table"}>>,
       <<"storage", {"cabinet", "dresser", "shelf", "bookcase", "bookshelf",
                     "chest", "armoire", "wardrobe", "hutch", "credenza"}>>,
       <<"beds", {"bed", "mattress", "headboard", "footboard", "bedframe",
                  "daybed", "futon", "sofa bed"}>>,
       <<"sofas", {"sofa", "couch", "sectional", "loveseat", "settee",
                   "divan", "chaise", "ottoman"}>> >>

\* any(kw in type1 for kw in keywords): the texts used here are single words none
\* of which is part of another, so a keyword is in the text when it is its word.
AnyKeywordIn(keywords, type1) == \E w \in Range(type1) : w \in keywords

\* _should_group_heuristic on lowered texts
ShouldGroupHeuristic(type1, color1, type2, color2) ==
    \/ (type1 # <<>> /\ type2 # <<>> /\ type1 = type2
        /\ color1 # <<>> /\ color2 # <<>> /\ color1 = color2)
    \/ \E c \in 1..Len(furniture_synonyms) :
          AnyKeywordIn(furniture_synonyms[c][2], type1)
          /\ AnyKeywordIn(furniture_synonyms[c][2], type2)

HeuristicJoins(all_items) ==
    [i \in 1..Len(all_items) |-> [j \in 1..Len(all_items) |->
        ShouldGroupHeuristic(LowerTitle(all_items[i].furniture_type.words),
                             LowerTitle(all_items[i].primary_color.words),
                             LowerTitle(all_items[j].furniture_type.words),
                             LowerTitle(all_items[j].primary_color.words))]]

\* _group_by_heuristics calls .lower() on the type and the color of the first item
\* and of every later one: with two items or more it raises when one is None.
GroupByHeuristics(all_items) ==
    IF \E k \in 1..Len(all_items) :
          all_items[k].furniture_type.none \/ all_items[k].primary_color.none
    THEN [raised |-> TRUE, groups |-> <<>>]
    ELSE [raised |-> FALSE,
          groups |-> GreedyGroups(all_items, HeuristicJoins(all_items),
                                  "heuristic_group_", 1, {}, <<>>)]

\* What the loop of _group_by_visual_embeddings meets for one item: the item is
\* skipped (no image file at its path, or no embedding at all), or it gets the
\* OpenAI embedding, or the local feature vector, which has another length.
EmbeddingOutcomes == {"skipped", "openai", "local"}

ValidPositions(outcomes) == SelectSeq([k \in 1..Len(outcomes) |-> k],
                                      LAMBDA k : outcomes[k] # "skipped")

\* The cluster labels DBSCAN may give n points, min_samples = 1: any partition,
\* labels numbered in order of first appearance.
ClusterLabels(n) ==
    {labels \in [1..n -> 1..n] :
        \A k \in 1..n : \/ labels[k] = 1
                        \/ \E j \in 1..(k - 1) : labels[j] >= labels[k] - 1}

NumLabels(labels) == Cardinality(Range(labels))

ItemsLabelled(valid_items, labels, label) ==
    SelectSeq([k \in 1..Len(valid_items) |-> [item |-> valid_items[k], label |-> labels[k]]],
              LAMBDA e : e.label = label)

ClusterGroups(valid_items, labels) ==
    [g \in 1..NumLabels(labels) |->
        CreateGroupFromItems([k \in 1..Len(ItemsLabelled(valid_items, labels, g)) |->
                                 ItemsLabelled(valid_items, labels, g)[k].item],
                             "visual_group_" \o ToString(g - 1))]

\* _group_by_visual_embeddings: np.array over vectors of two lengths makes
\* cosine_similarity raise.
EmbeddingGroups(valid_items, kinds, labels) ==
    IF Len(valid_items) < 2
    THEN [raised |-> FALSE, groups |-> CreateIndividualGroups(valid_items)]
    ELSE IF Cardinality(kinds) > 1
    THEN [raised |-> TRUE, groups |-> <<>>]
    ELSE [raised |-> FALSE, groups |-> ClusterGroups(valid_items, labels)]

GroupByVisualEmbeddings(all_items, outcomes, labels) ==
    EmbeddingGroups([k \in 1..Len(ValidPositions(outcomes)) |->
                        all_items[ValidPositions(outcomes)[k]]],
                    {outcomes[k] : k \in Range(ValidPositions(outcomes))},
                    labels)

\* group_furniture_images, from the last strategy back to the first.  tried lists
\* the strategies that ran.
AgentReturn(strategy, tried, groups) ==
    [kind |-> "groups", strategy |-> strategy, tried |-> tried, groups |-> groups]

AfterHeuristics(tried, heuristic) ==
    IF heuristic.raised
    THEN [kind |-> "raised", strategy |-> "heuristics", tried |-> tried, groups |-> <<>>]
    ELSE AgentReturn("heuristics", tried, heuristic.groups)

AfterStructured(all_items, tried, structured) ==
    IF ~structured.raised /\ structured.groups # <<>>
    THEN AgentReturn("structured", tried, structured.groups)
    ELSE AfterHeuristics(Append(tried, "heuristics"), GroupByHeuristics(all_items))

AfterEmbeddings(all_items, embedded) ==
    IF ~embedded.raised /\ embedded.groups # <<>>
    THEN AgentReturn("embeddings", <<"embeddings">>, embedded.groups)
    ELSE AfterStructured(all_items, <<"embeddings", "structured">>,
                         GroupByStructuredComparison(all_items))

\* A group_furniture_images without the shortcut for at most one item.
GroupFurnitureImagesWithoutShortcut(all_items, has_client, outcomes, labels) ==
    IF has_client
    THEN AfterEmbeddings(all_items, GroupByVisualEmbeddings(all_items, outcomes, labels))
    ELSE AfterStructured(all_items, <<"structured">>, GroupByStructuredComparison(all_items))

GroupFurnitureImagesResult(all_items, has_client, outcomes, labels) ==
    IF Len(all_items) <= 1
    THEN AgentReturn("individual", <<>>, CreateIndividualGroups(all_items))
    ELSE IF has_client
    THEN AfterEmbeddings(all_items, GroupByVisualEmbeddings(all_items, outcomes, labels))
    ELSE AfterStructured(all_items, <<"structured">>, GroupByStructuredComparison(all_items))

\* One call of group_furniture_images.
GroupFurnitureImages ==
    /\ agent_result = NoResult
    /\ \E outcomes \in IF client /\ Len(agent_items) > 1
                        THEN [1..Len(agent_items) -> EmbeddingOutcomes] ELSE {<<>>} :
         \E labels \in ClusterLabels(Len(ValidPositions(outcomes))) :
            /\ agent_embeddings' = outcomes
            /\ agent_result' = GroupFurnitureImagesResult(agent_items, client, outcomes, labels)
    /\ UNCHANGED <<entry, envVars, beVars, client, agent_items, scVars, wfVars, result, epVars>>

----------------------------------------------------------------------------
\* The outcome lists a node may meet for n calls: any list, or one where every
\* call has the same outcome.
AllOutcomeLists(outcomes, n) == [1..n -> outcomes]

UniformOutcomeLists(outcomes, n) == {[k \in 1..n |-> o] : o \in outcomes}

\* The lists where at most one call departs from the outcome usual.
OneDeviationLists(outcomes, usual, n) ==
    {[k \in 1..n |-> IF k = d THEN o ELSE usual] : d \in 0..n, o \in outcomes}

\* Requests: up to MaxFiles files, each an image or not.
FileLists == SeqsUpTo(BOOLEAN, MaxFiles)

\* No grouping agent is at work and no call of the scorer is observed.
AgentIdle ==
    /\ client = FALSE
    /\ agent_items = <<>>
    /\ agent_embeddings = <<>>
    /\ agent_result = NoResult
    /\ compensated_sum = FALSE
    /\ score_attr1 = NoResult
    /\ score_attr2 = NoResult
    /\ score = NoResult

\* No request has been handled yet.
ServiceIdle ==
    /\ entry = "none"
    /\ node = "request"
    /\ image_paths = <<>>
    /\ vision_results = <<>>
    /\ classification_results = <<>>
    /\ pricing_results = <<>>
    /\ furniture_groups = <<>>
    /\ final_listings = <<>>
    /\ current_step = "none"
    /\ errors = <<>>
    /\ processing_complete = FALSE
    /\ total_images = 0
    /\ grouping_trace = [strategy |-> "none", answer |-> NoAnswer]
    /\ saved_paths = <<>>
    /\ agent_listings = <<>>
    /\ result = NoResult
    /\ response = NoResponse
    /\ state = NoResult
    /\ agent_outcomes = NoResult
    /\ workflow_return = NoResult
    /\ agent_results = NoResult
    /\ pricing_call = NoResult
    /\ analysis = NoResult
    /\ clock = 0
    /\ uploads = {}
    /\ batches = [b \in 1..2 |-> [status |-> "none", saved_paths |-> <<>>]]

----------------------------------------------------------------------------
\* workflows/furniture_workflow.py, FurnitureWorkflowEngine.  The agents themselves
\* (agents/*.py) are outside the sources: a call of one returns a dictionary or raises.
\* _cache_state writes to Redis, catches what that raises, and leaves the state alone.

\* The nodes in the order of the graph's edges, START to END.
workflow_nodes == <<"vision_analysis", "brand_recognition", "market_research",
                    "pricing_intelligence", "listing_generation", "quality_assurance",
                    "finalize">>

\* run_workflow builds the initial state and invokes the graph.
RunWorkflow ==
    /\ state = NoResult
    /\ state' = [node |-> workflow_nodes[1],
                 vision_analysis |-> NoValue, brand_info |-> NoValue, market_data |-> NoValue,
                 pricing_analysis |-> NoValue, generated_listing |-> NoValue,
                 qa_results |-> NoValue,
                 errors |-> <<>>, current_step |-> "initializing", completed_steps |-> <<>>,
                 final_listing |-> NoValue, success |-> FALSE]
    /\ agent_outcomes' = [k \in 1..6 |-> "pending"]
    /\ UNCHANGED <<entry, envVars, agVars, wfVars, result, epVars, workflow_return,
                   agent_results, pricing_call, analysis, clock, uploads, batches>>

\* _vision_node, _brand_node, _market_node, _pricing_node, _listing_node, _qa_node:
\* node k of the graph sets current_step, calls its agent, and either stores the result
\* and appends its name to completed_steps, or appends one error; the next node follows.
AgentNode(k, raises) ==
    LET key == <<"vision_analysis", "brand_info", "market_data", "pricing_analysis",
                 "generated_listing", "qa_results">>[k]
        error_msg == <<"Vision analysis failed", "Brand recognition failed",
                       "Market research failed", "Pricing analysis failed",
                       "Listing generation failed", "Quality assurance failed">>[k]
        entered == [state EXCEPT !.current_step = workflow_nodes[k],
                                 !.node = workflow_nodes[k + 1]]
    IN  /\ state # NoResult
        /\ state.node = workflow_nodes[k]
        /\ state' = IF raises
                     THEN [entered EXCEPT !.errors = Append(@, error_msg)]
                     ELSE [entered EXCEPT ![key] = "dict",
                                          !.completed_steps = Append(@, workflow_nodes[k])]
        /\ agent_outcomes' = [agent_outcomes EXCEPT ![k] = IF raises THEN "raised" ELSE "returned"]
        /\ UNCHANGED <<entry, envVars, agVars, wfVars, result, epVars, workflow_return,
                       agent_results, pricing_call, analysis, clock, uploads, batches>>

\* _finalize_node with success given as the try block computes it.  generated_listing
\* and qa_results are keys of the state from the start, so state.get(key, {}) gives None
\* after the agent failed: qa_results.get or the item assignment on final_listing raises,
\* and the except branch records the error and clears success.
Finalize(success) ==
    /\ state # NoResult
    /\ state.node = "finalize"
    /\ state' = IF state.generated_listing = NoValue \/ state.qa_results = NoValue
                 THEN [state EXCEPT !.current_step = "finalization",
                                    !.errors = Append(@, "Finalization failed"),
                                    !.success = FALSE,
                                    !.node = "END"]
                 ELSE [state EXCEPT !.current_step = "finalization",
                                    !.final_listing = "dict",
                                    !.success = success,
                                    !.completed_steps = Append(@, "finalization"),
                                    !.node = "END"]
    /\ UNCHANGED <<entry, envVars, agVars, wfVars, result, epVars, agent_outcomes,
                   workflow_return, agent_results, pricing_call, analysis, clock, uploads,
                   batches>>

FinalizeNodeAlwaysSuccessful == Finalize(TRUE)

FinalizeNode == Finalize(Len(state.errors) = 0)

\* run_workflow returns what the final state holds; when the invocation of the graph
\* itself raises, at whatever node, the except branch answers with that one error.
RunWorkflowReturn ==
    /\ state # NoResult
    /\ workflow_return = NoResult
    /\ \/ /\ state.node = "END"
          /\ workflow_return' = [success |-> state.success, listing |-> state.final_listing,
                                 completed_steps |-> state.completed_steps,
                                 errors |-> state.errors]
          /\ state' = [state EXCEPT !.node = "returned"]
       \/ /\ state.node # "END"
          /\ workflow_return' = [success |-> FALSE, listing |-> NoValue,
                                 completed_steps |-> <<>>, errors |-> <<"str(e)">>]
          /\ state' = [state EXCEPT !.node = "raised"]
    /\ UNCHANGED <<entry, envVars, agVars, wfVars, result, epVars, agent_outcomes,
                   agent_results, pricing_call, analysis, clock, uploads, batches>>

----------------------------------------------------------------------------
\* ai_agent_system.py, AIAgentSystem.analyze_furniture_with_agents.

\* The five tasks are handed to asyncio.gather(..., return_exceptions=True).
AnalyzeFurnitureWithAgents ==
    /\ agent_results = NoResult
    /\ agent_results' = [agent \in {"category", "color", "brand", "dimensions", "style_material"}
                            |-> [kind |-> "pending", agent |-> agent]]
    /\ UNCHANGED <<entry, envVars, agVars, wfVars, result, epVars, state, agent_outcomes,
                   workflow_return, pricing_call, analysis, clock, uploads, batches>>

\* One task of the gather ends, in any order: with the agent's mapping (its own
\* fallback mapping included), or with an exception that left the agent.
AgentFinishes(agent, kind) ==
    /\ agent_results # NoResult
    /\ agent_results[agent].kind = "pending"
    /\ agent_results' = [agent_results EXCEPT ![agent].kind = kind]
    /\ UNCHANGED <<entry, envVars, agVars, wfVars, result, epVars, state, agent_outcomes,
                   workflow_return, pricing_call, analysis, clock, uploads, batches>>

\* The gather returned: an exception among the results becomes {}, pricing_agent is
\* called with the category, color, style and brand data, and the result is compiled.
\* pricing_agent answers from Gemini or from _fallback_pricing.
PricingAgent ==
    LET data(agent) == IF agent_results[agent].kind = "exception"
                       THEN [kind |-> "mapping", agent |-> "{}"]
                       ELSE agent_results[agent]
    IN  /\ agent_results # NoResult
        /\ pricing_call = NoResult
        /\ \A agent \in DOMAIN agent_results : agent_results[agent].kind # "pending"
        /\ pricing_call' = [category_data |-> data("category"), color_data |-> data("color"),
                            style_data |-> data("style_material"), brand_data |-> data("brand")]
        /\ analysis' = [category |-> data("category"), color |-> data("color"),
                        brand |-> data("brand"), dimensions |-> data("dimensions"),
                        style_material |-> data("style_material"),
                        pricing |-> [kind |-> "mapping", agent |-> "pricing"]]
        /\ UNCHANGED <<entry, envVars, agVars, wfVars, result, epVars, state, agent_outcomes,
                       workflow_return, agent_results, clock, uploads, batches>>

----------------------------------------------------------------------------
\* main.py, auto_analyze_multiple_furniture handled for two batches at a time.

\* Bounds of the concurrent batches: seconds of the clock, files per batch.
MaxClock == 2
MaxUploads == 2

\* The uploaded files of a batch: a filename (its characters) and whether the content
\* type is an image.
UploadFiles ==
    SeqsUpTo([filename : {<<"a">>, <<"a", " ">>}, image : BOOLEAN], MaxUploads)

\* Batch b arrives at second now or later.  The loop saves each image to
\* uploads/{prefix}{timestamp}_{i:02d}_{sanitized_name} without awaiting, an existing
\* file of that path is overwritten; the sanitized name keeps the alphanumeric
\* characters and ".", "-", "_" (the names here are shorter than the 50 characters at
\* which it is cut).  No image at all ends the request; otherwise the analysis is awaited.
SaveBatchUploads(b, timestamp, upload_files) ==
    LET prefix == IF LANGGRAPH_AVAILABLE THEN "lg_" ELSE "leg_"
        sanitized_name(original_name) == SelectSeq(original_name, LAMBDA c : c # " ")
        file_path(i) == <<prefix, timestamp, i - 1, sanitized_name(upload_files[i].filename)>>
        images == SelectSeq([i \in 1..Len(upload_files) |-> i],
                            LAMBDA i : upload_files[i].image)
        paths == [k \in 1..Len(images) |-> file_path(images[k])]
    IN  /\ batches[b].status = "none"
        /\ timestamp >= clock
        /\ clock' = timestamp
        /\ uploads' = {file \in uploads : file[1] \notin Range(paths)}
                            \cup {<<paths[k], b>> : k \in 1..Len(paths)}
        /\ batches' = [batches EXCEPT ![b] =
                            [status |-> IF paths = <<>> THEN "rejected" ELSE "analysis",
                             saved_paths |-> paths]]
        /\ UNCHANGED <<entry, envVars, agVars, wfVars, result, epVars, state, agent_outcomes,
                       workflow_return, agent_results, pricing_call, analysis>>

\* The analysis of batch b ends: with the response, or with an exception, and then the
\* except branch removes every path of saved_paths from the directory.
BatchAnalysisEnds(b, failed) ==
    /\ batches[b].status = "analysis"
    /\ batches' = [batches EXCEPT ![b].status = IF failed THEN "failed" ELSE "answered"]
    /\ uploads' = IF failed
                   THEN {file \in uploads : file[1] \notin Range(batches[b].saved_paths)}
                   ELSE uploads
    /\ UNCHANGED <<entry, envVars, agVars, wfVars, result, epVars, state, agent_outcomes,
                   workflow_return, agent_results, pricing_call, analysis, clock>>

Init ==
    /\ files \in FileLists
    /\ LANGGRAPH_AVAILABLE \in BOOLEAN
    /\ classifier_module \in ClassifierModules
    /\ AgentIdle
    /\ ServiceIdle

\* One batch through the endpoint or the classifier.  Within a node of the
\* workflow every call of the batch meets the same outcome, at most one listing
\* generation departs from "ok", and the agent fallback meets any outcomes.
Next ==
    \/ SaveUploads
    \/ DirectCall(1, {"root"})
    \/ InitializeProcessing
    \/ VisionAnalysisNode(UniformOutcomeLists(VisionOutcomes, Len(image_paths)))
    \/ ClassificationNode(UniformOutcomeLists(ClassificationOutcomes, Len(vision_results)))
    \/ PricingNode(UniformOutcomeLists(PricingOutcomes, Len(classification_results)))
    \/ GroupingNode
    \/ ListingGenerationNode(OneDeviationLists(ListingOutcomes, "ok", Len(furniture_groups)))
    \/ FinalizeResults
    \/ ProcessFurnitureImagesReturn
    \/ AnswerWorkflowResult
    \/ AgentAnalysis(AllOutcomeLists(AgentOutcomes, Len(saved_paths)))
    \/ GroupAndAnswer

Spec == Init /\ [][Next]_vars

----------------------------------------------------------------------------
\* The three per-image nodes alone, for either classifier module and with any
\* outcome of every call.
NextExtract ==
    \/ DirectCall(MaxFiles, ClassifierModules)
    \/ InitializeProcessing
    \/ VisionAnalysisNode(AllOutcomeLists(VisionOutcomes, Len(image_paths)))
    \/ ClassificationNode(AllOutcomeLists(ClassificationOutcomes, Len(vision_results)))
    \/ PricingNode(AllOutcomeLists(PricingOutcomes, Len(classification_results)))

SpecExtract == Init /\ [][NextExtract]_vars

\* The vision node on batches of up to MaxBatch images where at most two calls fail.
FewFailureLists(answers, n) ==
    {[k \in 1..n |-> IF k \in {a, b} THEN CallFailed ELSE ans]
        : a \in 0..n, b \in 0..n, ans \in answers}

InitFallback ==
    /\ files \in {[k \in 1..n |-> TRUE] : n \in 0..MaxBatch}
    /\ LANGGRAPH_AVAILABLE = TRUE
    /\ classifier_module \in ClassifierModules
    /\ AgentIdle
    /\ ServiceIdle

NextFallback ==
    \/ DirectCall(MaxBatch, ClassifierModules)
    \/ InitializeProcessing
    \/ VisionAnalysisNode(FewFailureLists(VisionAnswers, Len(image_paths)))

SpecFallback == InitFallback /\ [][NextFallback]_vars

\* EnhancedGroupingAgent.group_furniture_images on any list of up to MaxItems items,
\* with and without an OpenAI client.
InitAgent ==
    /\ files = <<>>
    /\ LANGGRAPH_AVAILABLE = FALSE
    /\ classifier_module = "root"
    /\ ServiceIdle
    /\ client \in BOOLEAN
    /\ agent_items \in AgentItemLists(MaxItems)
    /\ agent_embeddings = <<>>
    /\ agent_result = NoResult
    /\ compensated_sum \in BOOLEAN
    /\ score_attr1 = NoResult
    /\ score_attr2 = NoResult
    /\ score = NoResult

NextAgent == GroupFurnitureImages

SpecAgent == InitAgent /\ [][NextAgent]_vars

\* Batches of at most one image through the classifier up to its grouping node, and
\* the grouping agent on lists of at most one item.
InitSingle ==
    /\ files \in FileLists
    /\ LANGGRAPH_AVAILABLE = TRUE
    /\ classifier_module = "root"
    /\ ServiceIdle
    /\ client \in BOOLEAN
    /\ agent_items \in AgentItemLists(1)
    /\ agent_embeddings = <<>>
    /\ agent_result = NoResult
    /\ compensated_sum = FALSE
    /\ score_attr1 = NoResult
    /\ score_attr2 = NoResult
    /\ score = NoResult

NextSingle ==
    \/ DirectCall(1, {"root"})
    \/ InitializeProcessing
    \/ VisionAnalysisNode(AllOutcomeLists(VisionOutcomes, Len(image_paths)))
    \/ ClassificationNode(AllOutcomeLists(ClassificationOutcomes, Len(vision_results)))
    \/ PricingNode(AllOutcomeLists(PricingOutcomes, Len(classification_results)))
    \/ GroupingNode
    \/ GroupFurnitureImages

SpecSingle == InitSingle /\ [][NextSingle]_vars

\* _group_by_structured_comparison and its scorer at work: the grouping agent
\* without a client on lists of up to MaxPairwiseItems items (a blue chair with
\* no material and style, with a style, or with both, a brown chair with both, and
\* a brown table), and _calculate_furniture_similarity on any two attribute
\* records, under either sum().
MaxPairwiseItems == 3

PairwiseItemLists ==
    UNION {{[k \in 1..n |-> AgentItem(k - 1, attrs[k][1], attrs[k][2],
                                       attrs[k][3][1], attrs[k][3][2])]
            : attrs \in [1..n ->
                  ({Text(<<"Chair">>)} \X {Text(<<"Blue">>)}
                      \X {<<Text(<<>>), Text(<<>>)>>,
                          <<Text(<<>>), Text(<<"Modern">>)>>,
                          <<Text(<<"Wood">>), Text(<<"Modern">>)>>})
                  \cup {<<Text(<<"Chair">>), Text(<<"Brown">>),
                           <<Text(<<"Wood">>), Text(<<"Modern">>)>>>>,
                         <<Text(<<"Table">>), Text(<<"Brown">>), <<Text(<<>>), Text(<<>>)>>>>}]}
           : n \in 0..MaxPairwiseItems}

\* The records FurnitureAttributes.from_item may build, before they are compared:
\* a field is empty, holds the word Unknown that the fallback records carry, or
\* holds one or two words.
ScoreAttributes ==
    [type : {<<>>, <<"Chair">>, <<"Office", "Chair">>, <<"Dining", "Chair">>, <<"Armchair">>},
     color : {<<>>, <<"Blue">>, <<"Brown">>, <<"Unknown">>},
     material : {<<>>, <<"Wood">>},
     style : {<<>>, <<"Modern">>}]

InitPairwise ==
    /\ files = <<>>
    /\ LANGGRAPH_AVAILABLE = FALSE
    /\ classifier_module = "root"
    /\ ServiceIdle
    /\ client = FALSE
    /\ agent_embeddings = <<>>
    /\ agent_result = NoResult
    /\ compensated_sum \in BOOLEAN
    /\ score = NoResult
    /\ \/ /\ agent_items \in PairwiseItemLists
          /\ score_attr1 = NoResult
          /\ score_attr2 = NoResult
       \/ /\ agent_items = <<>>
          /\ score_attr1 \in ScoreAttributes
          /\ score_attr2 \in ScoreAttributes

\* One call of _calculate_furniture_similarity(attr1, attr2).
CalculateFurnitureSimilarityCall ==
    /\ score_attr1 # NoResult
    /\ score = NoResult
    /\ score' = CalculateFurnitureSimilarity(score_attr1, score_attr2)
    /\ UNCHANGED <<entry, envVars, beVars, client, agent_items, agent_embeddings, agent_result,
                   compensated_sum, score_attr1, score_attr2, wfVars, result, epVars>>

NextPairwise ==
    \/ GroupFurnitureImages
    \/ CalculateFurnitureSimilarityCall

SpecPairwise == InitPairwise /\ [][NextPairwise]_vars

\* The workflow of src/furniture_classifier.py where a call of the vision node may
\* never return.  Every node runs once the node before it has returned.
NextPending ==
    \/ DirectCall(MaxFiles, {"root"})
    \/ InitializeProcessing
    \/ VisionAnalysisNode(UniformOutcomeLists(VisionOutcomes, Len(image_paths)))
    \/ VisionCallNeverReturns
    \/ ClassificationNode(UniformOutcomeLists(ClassificationOutcomes, Len(vision_results)))
    \/ PricingNode(UniformOutcomeLists(PricingOutcomes, Len(classification_results)))
    \/ GroupingNode
    \/ ListingGenerationNode(OneDeviationLists(ListingOutcomes, "ok", Len(furniture_groups)))
    \/ FinalizeResults

SpecPending == Init /\ [][NextPending]_vars /\ WF_vars(NextPending)

\* The other components of the backend: the workflow engine with any failures of
\* its agents, the agent system with its tasks ending in any order, and two batches
\* of the endpoint up to the end of their analyses.  The components share no state;
\* a behaviour follows one of them.
InitBackend ==
    /\ files = <<>>
    /\ LANGGRAPH_AVAILABLE \in BOOLEAN
    /\ classifier_module = "root"
    /\ AgentIdle
    /\ ServiceIdle

NextBackend ==
    \/ /\ agent_results = NoResult
       /\ clock = 0
       /\ \/ RunWorkflow
          \/ \E k \in 1..6, raises \in BOOLEAN : AgentNode(k, raises)
          \/ FinalizeNode
          \/ RunWorkflowReturn
    \/ /\ state = NoResult
       /\ clock = 0
       /\ \/ AnalyzeFurnitureWithAgents
          \/ \E agent \in DOMAIN agent_results, kind \in {"mapping", "exception"} :
                AgentFinishes(agent, kind)
          \/ PricingAgent
    \/ /\ state = NoResult
       /\ agent_results = NoResult
       /\ \/ \E b \in DOMAIN batches, timestamp \in 1..MaxClock, upload_files \in UploadFiles :
                SaveBatchUploads(b, timestamp, upload_files)
          \/ \E b \in DOMAIN batches, failed \in BOOLEAN : BatchAnalysisEnds(b, failed)

SpecBackend == InitBackend /\ [][NextBackend]_vars

----------------------------------------------------------------------------
\* The properties checked.

\* The image_index values of the members of each group.
IndexSets(groups) ==
    {{groups[g].all_items[m].image_index : m \in 1..Len(groups[g].all_items)}
        : g \in 1..Len(groups)}

\* How often the item with image_index i is a member of a group of groups.
Memberships(groups, i) ==
    Cardinality({<<g, m>> \in (1..Len(groups)) \X (1..MaxItems + MaxAnswerIndices) :
                    m <= Len(groups[g].all_items)
                    /\ groups[g].all_items[m].image_index = i})

\* C1: for every item list and every outcome of the embedding collaborator, the
\* groups group_furniture_images returns partition the input: every input item is
\* a member of exactly one returned group.
C1_AgentGroupsPartitionInput ==
    agent_result.kind = "groups" =>
        \A k \in 1..Len(agent_items) :
            Memberships(agent_result.groups, agent_items[k].image_index) = 1

\* The image_indices of an answer cover 0..n-1, each index once, none out of range.
IsExactCover(ai_groups, n) ==
    /\ \A g \in 1..Len(ai_groups) : \A m \in 1..Len(ai_groups[g].image_indices) :
          ai_groups[g].image_indices[m] \in 0..(n - 1)
    /\ \A i \in 0..(n - 1) :
          Cardinality({<<g, m>> \in (1..Len(ai_groups)) \X (1..MaxAnswerIndices) :
                          m <= Len(ai_groups[g].image_indices)
                          /\ ai_groups[g].image_indices[m] = i}) = 1

\* C2: a holistic answer that the grouping step accepts covers every input index
\* exactly once; an answer that misses an index, repeats one or names one out of
\* range is rejected.
C2_AcceptedAnswerIsExactCover ==
    grouping_trace.strategy = "holistic" =>
        IsExactCover(grouping_trace.answer.groups, Len(pricing_results))

\* How often the saved path is an image reference of a listing of the response.
References(listings, path) ==
    Cardinality({<<l, m>> \in (1..Len(listings)) \X (1..MaxFiles + MaxAnswerIndices) :
                    m <= Len(listings[l].images)
                    /\ listings[l].images[m].filename = path})

\* C3: on either path of the endpoint, every input image is an image reference of
\* exactly one returned listing.
C3_EveryImageInExactlyOneListing ==
    response.kind = "success" =>
        \A k \in 1..Len(saved_paths) : References(response.listings, saved_paths[k]) = 1

\* C4: the number of listings returned for a batch of N images is at most N.
C4_ListingsAtMostImages ==
    response.kind = "success" => Len(response.listings) <= Len(saved_paths)

\* FurnitureAttributes.from_item reads the item of the workflow: type and color
\* from the vision record, material and style from the classification.
ToAgentItem(item) ==
    AgentItem(item.image_index,
              Text(<<item.vision.furniture_type>>),
              Text(<<item.vision.primary_color>>),
              Text(<<item.classification.material>>),
              Text(<<item.classification.style>>))

PairwiseIndexSets(all_items) ==
    IndexSets(GroupByStructuredComparison(
                  [k \in 1..Len(all_items) |-> ToAgentItem(all_items[k])]).groups)

\* C5: when the holistic grouping errors, the groups of the batch are the ones
\* PAIRWISE attribute-similarity clustering computes.
C5_HolisticErrorFallsToPairwise ==
    grouping_trace.answer.kind \in {"raise", "nogroups"} =>
        IndexSets(furniture_groups) = PairwiseIndexSets(AllItems(pricing_results))

\* C6: grouping is total: for every item list the grouping call returns a group
\* list and never raises.
C6_GroupingNeverRaises ==
    agent_result.kind # "raised"

\* The positions of the vision results that are fallback records.
FailedImages == {k \in 1..Len(vision_results) : "error" \in DOMAIN vision_results[k]}

FallbackValues(record) ==
    <<record.furniture_type, record.primary_color,
      record.material_appearance, record.style_indicators>>

\* C7: two different images of a batch of at most 15 whose extraction failed get
\* fallback records that differ in type, color, material or style.
C7_FailedImagesDiffer ==
    \A a \in FailedImages : \A b \in FailedImages :
        a # b => FallbackValues(vision_results[a]) # FallbackValues(vision_results[b])

\* results[k] is the record of image k-1: it carries image_index k-1, and the vision
\* record it rests on carries the k-th image path.
OnePerImage(results) ==
    /\ Len(results) = Len(image_paths)
    /\ \A k \in 1..Len(results) : results[k].image_index = k - 1

VisionPathsInOrder(records) ==
    \A k \in 1..Len(records) : records[k].image_path = image_paths[k]

\* C8: after the vision, classification and pricing steps each result list holds
\* exactly one record per input image, in input order, whichever calls failed.
C8_OneRecordPerImageInOrder ==
    /\ node \in {"classification", "pricing", "grouping"} =>
          OnePerImage(vision_results) /\ VisionPathsInOrder(vision_results)
    /\ node \in {"pricing", "grouping"} =>
          /\ OnePerImage(classification_results)
          /\ VisionPathsInOrder([k \in 1..Len(classification_results) |->
                                    classification_results[k].source_vision])
    /\ node = "grouping" =>
          /\ OnePerImage(pricing_results)
          /\ VisionPathsInOrder([k \in 1..Len(pricing_results) |->
                                    pricing_results[k].source_classification.source_vision])

\* A batch of two images is through pricing, the first image's vision call and the
\* second image's pricing call having failed.
C8_Witness ==
    /\ node = "grouping"
    /\ Len(image_paths) = 2
    /\ FailedImages = {1}
    /\ "error" \in DOMAIN pricing_results[2]
    /\ "error" \notin DOMAIN pricing_results[1]

\* The images whose vision call failed, by the errors log (it numbers them from 1).
LoggedVisionFailures ==
    {errors[e].image : e \in {x \in 1..Len(errors) : errors[x].stage = "vision_analysis"}}

IsMarkedFallback(record) ==
    /\ "fallback_used" \in DOMAIN record
    /\ record.fallback_used = TRUE
    /\ record.analysis_confidence = 0

\* C9: the record substituted for a failed extraction has its extraction-failed
\* flag set and confidence 0.0, and the record that reaches grouping still has them.
C9_FallbackFlaggedWithZeroConfidence ==
    /\ node \in {"classification", "pricing", "grouping"} =>
          \A k \in LoggedVisionFailures : IsMarkedFallback(vision_results[k])
    /\ node = "grouping" =>
          \A k \in LoggedVisionFailures :
              IsMarkedFallback(pricing_results[k].source_classification.source_vision)

\* C10: grouping zero records gives an empty group list and no error, in the
\* grouping node of the classifier as in the grouping agent.
C10_ZeroRecordsNoError ==
    /\ (entry = "classifier" /\ image_paths = <<>>) => node # "raised"
    /\ (agent_items = <<>> /\ agent_result # NoResult) =>
          agent_result.kind = "groups" /\ agent_result.groups = <<>>

\* C11: grouping a single record gives exactly one group whose only member is that
\* record, and no collaborator (grouping model, embedding call, strategy) is consulted.
C11_SingleRecordOneGroup ==
    /\ (node = "listing_generation" /\ Len(pricing_results) = 1) =>
          /\ Len(furniture_groups) = 1
          /\ furniture_groups[1].all_items = AllItems(pricing_results)
          /\ grouping_trace.answer = NoAnswer
    /\ (agent_result # NoResult /\ Len(agent_items) = 1) =>
          /\ agent_result.kind = "groups"
          /\ Len(agent_result.groups) = 1
          /\ agent_result.groups[1].all_items = agent_items
          /\ agent_result.tried = <<>>
          /\ agent_embeddings = <<>>

C11_Witness ==
    /\ node = "listing_generation"
    /\ Len(pricing_results) = 1
    /\ Len(furniture_groups) = 1
    /\ client
    /\ Len(agent_items) = 1
    /\ agent_result # NoResult

\* The position of the group of agent_result that holds the item at position k.
GroupOf(k) ==
    CHOOSE g \in 1..Len(agent_result.groups) :
        \E m \in 1..Len(agent_result.groups[g].all_items) :
            agent_result.groups[g].all_items[m].image_index = agent_items[k].image_index

\* Two items agree on type and color and earn no credit on material or style.
AgreeOnTypeAndColorOnly(a, b) ==
    /\ a.type # <<>> /\ a.type = b.type
    /\ a.color # <<>> /\ a.color = b.color
    /\ text_similarity(a.material, b.material) = FloatDiv(0, 1)
    /\ text_similarity(a.style, b.style) = FloatDiv(0, 1)

\* (Chair, Blue), (Chair, Blue, style Modern), (Table, Brown)
C12_Records ==
    <<AgentItem(0, Text(<<"Chair">>), Text(<<"Blue">>), Text(<<>>), Text(<<>>)),
      AgentItem(1, Text(<<"Chair">>), Text(<<"Blue">>), Text(<<>>), Text(<<"Modern">>)),
      AgentItem(2, Text(<<"Table">>), Text(<<"Brown">>), Text(<<>>), Text(<<>>))>>

\* C12 as stated: two records that agree on type and color and earn no credit on
\* material or style score exactly 0.7 and, the threshold test being inclusive,
\* PAIRWISE puts them in one group; the records (Chair, Blue), (Chair, Blue, Modern),
\* (Table, Brown) come out as 2 groups of sizes 2 and 1.
C12_TypeAndColorMatchGroups ==
    agent_result # NoResult =>
        /\ agent_result.kind = "groups"
        /\ Len(agent_items) > 1 => agent_result.strategy = "structured"
        /\ \A i \in 1..Len(agent_items) : \A j \in 1..Len(agent_items) :
              (i # j /\ AgreeOnTypeAndColorOnly(FromItem(agent_items[i]), FromItem(agent_items[j])))
              => /\ CalculateFurnitureSimilarity(FromItem(agent_items[i]), FromItem(agent_items[j]))
                       = FloatDiv(7, 10)
                 /\ GroupOf(i) = GroupOf(j)
        /\ agent_items = C12_Records =>
              [g \in 1..Len(agent_result.groups) |-> Len(agent_result.groups[g].all_items)]
                  = <<2, 1>>

\* No record earlier in the input than position k reaches the threshold against
\* the record at position k.
NoEarlierMatch(k) ==
    \A e \in 1..(k - 1) :
        ~FloatGE(CalculateFurnitureSimilarity(FromItem(agent_items[e]), FromItem(agent_items[k])),
                 FloatDiv(7, 10))

\* C12, amended: two records that agree on type and color and earn no credit on
\* material or style score exactly 0.7, and PAIRWISE puts them in one group when
\* neither of them is first absorbed by an earlier record of the input, which is
\* the case when no earlier record except the other one scores 0.7 or more against
\* either; the records (Chair, Blue), (Chair, Blue, Modern), (Table, Brown) come out
\* as 2 groups of sizes 2 and 1.
C12_TypeAndColorMatchGroupsUnlessAbsorbed ==
    agent_result # NoResult =>
        /\ agent_result.kind = "groups"
        /\ Len(agent_items) > 1 => agent_result.strategy = "structured"
        /\ \A i \in 1..Len(agent_items) : \A j \in (i + 1)..Len(agent_items) :
              AgreeOnTypeAndColorOnly(FromItem(agent_items[i]), FromItem(agent_items[j]))
              => /\ CalculateFurnitureSimilarity(FromItem(agent_items[i]), FromItem(agent_items[j]))
                       = FloatDiv(7, 10)
                 /\ CalculateFurnitureSimilarity(FromItem(agent_items[j]), FromItem(agent_items[i]))
                       = FloatDiv(7, 10)
                 /\ (/\ NoEarlierMatch(i)
                     /\ \A e \in 1..(j - 1) : e # i =>
                            ~FloatGE(CalculateFurnitureSimilarity(FromItem(agent_items[e]),
                                                                  FromItem(agent_items[j])),
                                     FloatDiv(7, 10)))
                    => GroupOf(i) = GroupOf(j)
        /\ agent_items = C12_Records =>
              [g \in 1..Len(agent_result.groups) |-> Len(agent_result.groups[g].all_items)]
                  = <<2, 1>>

C12_Witness ==
    /\ agent_items = C12_Records
    /\ agent_result # NoResult
    /\ agent_result.strategy = "structured"
    /\ Len(agent_result.groups) = 2

\* C13: the similarity score is symmetric: score(a, b) equals score(b, a) for all
\* attribute records a and b, so the matrix of the structured comparison, which
\* stores one call for both directions, holds what either call would return.
C13_ScoreSymmetric ==
    score # NoResult => score = CalculateFurnitureSimilarity(score_attr2, score_attr1)

C13_Witness ==
    /\ score # NoResult
    /\ score_attr1.type = <<"Office", "Chair">>
    /\ score_attr2.type = <<"Chair">>
    /\ score_attr1.color # score_attr2.color
    /\ score_attr1.color # <<>>
    /\ score_attr2.color # <<>>
    /\ score_attr1.material = score_attr2.material
    /\ score_attr1.material # <<>>

\* The four field similarities of two attribute records.
FieldSimilarities(a, b) ==
    {text_similarity(a.type, b.type), text_similarity(a.color, b.color),
     text_similarity(a.material, b.material), text_similarity(a.style, b.style)}

\* C14: for all attribute records a and b the similarity score lies in [0, 1]: each
\* of the four field similarities lies in [0, 1] and the weights 0.4, 0.3, 0.2,
\* 0.1 sum to 1.
C14_ScoreInUnitInterval ==
    score # NoResult =>
        /\ FloatGE(score, FloatDiv(0, 1))
        /\ FloatGE(FloatDiv(1, 1), score)
        /\ \A s \in FieldSimilarities(score_attr1, score_attr2) :
              FloatGE(s, FloatDiv(0, 1)) /\ FloatGE(FloatDiv(1, 1), s)
        /\ SumSeq(weights) = 10

C14_Witness ==
    /\ score # NoResult
    /\ score_attr1 = score_attr2
    /\ \A s \in FieldSimilarities(score_attr1, score_attr2) : s = FloatDiv(1, 1)
    /\ FloatGE(score, FloatDiv(0, 1))
    /\ FloatGE(FloatDiv(1, 1), score)

\* Every compared field of the record is empty or holds the word Unknown.
AllEmptyOrUnknown(a) ==
    {a.type, a.color, a.material, a.style} \subseteq {<<>>, <<"Unknown">>}

\* C15: two records whose four compared fields are all empty or unknown score 0.0;
\* a field that is empty on both sides contributes 0, never 1, to the score.
C15_EmptyOrUnknownScoreZero ==
    score # NoResult =>
        /\ (AllEmptyOrUnknown(score_attr1) /\ AllEmptyOrUnknown(score_attr2))
              => score = FloatDiv(0, 1)
        /\ text_similarity(<<>>, <<>>) = FloatDiv(0, 1)

\* C16: for every record a that has at least one non-empty compared field,
\* score(a, a) equals 1.0.
C16_ScoreOfRecordWithItself ==
    (/\ score # NoResult
     /\ score_attr1 = score_attr2
     /\ {score_attr1.type, score_attr1.color, score_attr1.material, score_attr1.style} # {<<>>})
    => score = FloatDiv(1, 1)

FallbackUsed ==
    \/ \E k \in 1..Len(vision_results) : "error" \in DOMAIN vision_results[k]
    \/ \E k \in 1..Len(classification_results) : "error" \in DOMAIN classification_results[k]
    \/ \E k \in 1..Len(pricing_results) : "error" \in DOMAIN pricing_results[k]
    \/ grouping_trace.strategy = "individual"
    \/ \E k \in 1..Len(final_listings) :
          \/ final_listings[k].error
          \/ final_listings[k] = GeneratedListing("generator_fallback", furniture_groups[k])

\* C18: every locally recovered failure of a batch adds an entry to the batch's
\* errors log, and that log is part of the result returned to the caller: whenever
\* a fallback was used in a batch, the errors list the caller receives is non-empty.
C18_RecoveredFailuresLogged ==
    /\ (result.kind = "workflow" /\ result.success /\ FallbackUsed) => result.errors # <<>>
    /\ (response.kind = "success" /\ result.kind = "workflow" /\ FallbackUsed)
          => response.has_errors /\ response.errors # <<>>

\* The nodes of the workflow in the order of its edges.
WorkflowOrder ==
    <<"initialize", "vision_analysis", "classification", "pricing", "grouping",
      "listing_generation", "finalize", "END">>

\* Every image of the batch has its vision, classification and pricing record, in
\* the order of the images.
AllImagesHaveResults ==
    /\ Len(vision_results) = Len(image_paths)
    /\ Len(classification_results) = Len(image_paths)
    /\ Len(pricing_results) = Len(image_paths)
    /\ \A k \in 1..Len(image_paths) :
          /\ vision_results[k].image_index = k - 1
          /\ classification_results[k].source_vision = vision_results[k]
          /\ pricing_results[k].source_classification = classification_results[k]

\* C19: in the classifier workflow the grouping step starts only after all N images
\* of the batch have an extraction result (success or fallback) and a classification
\* and pricing result; the steps run in the fixed order initialize, vision_analysis,
\* classification, pricing, grouping, listing_generation, finalize, and grouping
\* never sees a partial batch.
C19_GroupingAfterAllResults ==
    /\ [](node \in {"grouping", "listing_generation", "finalize", "END"}
            => AllImagesHaveResults /\ total_images = Len(image_paths))
    /\ [](furniture_groups # <<>> =>
            \A g \in 1..Len(furniture_groups) :
                \A m \in 1..Len(furniture_groups[g].all_items) :
                    \E k \in 1..Len(pricing_results) :
                        furniture_groups[g].all_items[m] = ItemOf(pricing_results[k]))
    /\ [][(node \in Range(WorkflowOrder) /\ node' \in Range(WorkflowOrder) /\ node' # node)
            => \E i \in 1..(Len(WorkflowOrder) - 1) :
                  node = WorkflowOrder[i] /\ node' = WorkflowOrder[i + 1]]_vars
    /\ [][(furniture_groups' # furniture_groups /\ furniture_groups' # <<>>)
            => node = "grouping" /\ AllImagesHaveResults]_vars

C19_Witness ==
    /\ node = "listing_generation"
    /\ Len(image_paths) = 2
    /\ "error" \in DOMAIN vision_results[1]
    /\ Len(furniture_groups) = 2

\* C20: if one extraction call of a batch never returns, the batch still eventually
\* completes: the call is cut off by a per-call timeout, the image gets a fallback
\* record like any other extraction failure, and the workflow reaches its finalize
\* step.
C20_BatchCompletesDespitePendingCall ==
    [](node = "vision_analysis_in_call"
        => <>(/\ node = "END"
              /\ processing_complete
              /\ Len(vision_results) = Len(image_paths)
              /\ \E k \in 1..Len(vision_results) : "error" \in DOMAIN vision_results[k]))

\* C21: within one grouping result the group_id values are pairwise distinct, for
\* every strategy, the holistic one included, where the group_id is taken from the
\* model's answer; hence listing ids and the image ids derived from group_id are
\* distinct too.
C21_GroupIdsDistinct ==
    /\ \A g \in 1..Len(furniture_groups) : \A h \in 1..Len(furniture_groups) :
          g # h => furniture_groups[g].group_id # furniture_groups[h].group_id
    /\ \A g \in 1..Len(final_listings) : \A h \in 1..Len(final_listings) :
          g # h =>
             /\ final_listings[g].id # final_listings[h].id
             /\ \A m \in 1..Len(final_listings[g].images) :
                   \A n \in 1..Len(final_listings[h].images) :
                      final_listings[g].images[m].id # final_listings[h].images[n].id

\* C22: a grouping call does not mutate its inputs: after grouping, every input
\* record or per-image listing has the same field values, including its list of
\* image references, as before the call; groups are new values built from the inputs.
C22_GroupingLeavesInputsUnchanged ==
    /\ [][node = "title_grouping" => agent_listings' = agent_listings]_vars
    /\ [][agent_result' # agent_result => agent_items' = agent_items]_vars
    /\ [][furniture_groups' # furniture_groups => pricing_results' = pricing_results]_vars

\* The records at positions i and j of agent_items reach the threshold.
ReachThreshold(i, j) ==
    FloatGE(CalculateFurnitureSimilarity(FromItem(agent_items[i]), FromItem(agent_items[j])),
            FloatDiv(7, 10))

\* The positions in agent_items of the members of group g of agent_result, in the
\* order of the group; the first one is the seed.
MemberPositions(g) ==
    [m \in 1..Len(agent_result.groups[g].all_items) |->
        agent_result.groups[g].all_items[m].image_index + 1]

\* C23: PAIRWISE clustering equals the reference greedy procedure: records are
\* visited in input order; each record not yet assigned seeds a new group, and that
\* group absorbs exactly the later, still unassigned records whose score against
\* the seed is >= 0.7, so every member other than the seed scores >= 0.7 against
\* its seed, and no member of a group, its seed included, scores >= 0.7 against the
\* seed of an earlier group.
C23_PairwiseIsGreedy ==
    (agent_result # NoResult /\ Len(agent_items) > 1) =>
        /\ agent_result.strategy = "structured"
        /\ \A k \in 1..Len(agent_items) :
              Cardinality({g \in 1..Len(agent_result.groups) :
                              \E m \in 1..Len(MemberPositions(g)) : MemberPositions(g)[m] = k}) = 1
        /\ \A g \in 1..Len(agent_result.groups) :
              /\ agent_result.groups[g].group_id = "structured_group_" \o ToString(g - 1)
              /\ \A m \in 1..Len(MemberPositions(g)) :
                    /\ agent_result.groups[g].all_items[m] = agent_items[MemberPositions(g)[m]]
                    /\ m > 1 => /\ MemberPositions(g)[m - 1] < MemberPositions(g)[m]
                                /\ ReachThreshold(MemberPositions(g)[1], MemberPositions(g)[m])
                    /\ \A h \in 1..(g - 1) :
                          /\ MemberPositions(h)[1] < MemberPositions(g)[1]
                          /\ ~ReachThreshold(MemberPositions(h)[1], MemberPositions(g)[m])

C23_Witness ==
    /\ agent_result # NoResult
    /\ Len(agent_items) = 3
    /\ Len(agent_result.groups) = 2
    /\ MemberPositions(1) = <<1, 3>>
    /\ MemberPositions(2) = <<2>>
    /\ ReachThreshold(2, 3)

\* The heuristic strategy returned the groups of agent_result.
HeuristicResult ==
    /\ agent_result # NoResult
    /\ agent_result.kind = "groups"
    /\ agent_result.strategy = "heuristics"

\* C24: HEURISTIC absorbs a later unassigned record into a group only when its
\* furniture type equals the seed's exactly and its color equals the seed's exactly:
\* two records with different colors, or with different types, are never placed in
\* the same HEURISTIC group.
C24_HeuristicGroupsShareTypeAndColor ==
    HeuristicResult =>
        \A g \in 1..Len(agent_result.groups) :
            \A m \in 1..Len(agent_result.groups[g].all_items) :
                /\ LowerTitle(agent_result.groups[g].all_items[m].furniture_type.words)
                      = LowerTitle(agent_result.groups[g].all_items[1].furniture_type.words)
                /\ LowerTitle(agent_result.groups[g].all_items[m].primary_color.words)
                      = LowerTitle(agent_result.groups[g].all_items[1].primary_color.words)

\* C25: HEURISTIC terminates with a valid partition for every input, and when every
\* attribute field of every record is empty it returns one group per record (an
\* empty type or color never matches another empty one).
C25_HeuristicAlwaysPartitions ==
    (/\ agent_result # NoResult
     /\ Len(agent_items) > 1
     /\ \E t \in 1..Len(agent_result.tried) : agent_result.tried[t] = "heuristics") =>
        /\ HeuristicResult
        /\ \A k \in 1..Len(agent_items) :
              Cardinality({g \in 1..Len(agent_result.groups) :
                              \E m \in 1..Len(agent_result.groups[g].all_items) :
                                 agent_result.groups[g].all_items[m] = agent_items[k]}) = 1
        /\ (\A k \in 1..Len(agent_items) :
                /\ agent_items[k].furniture_type.words = <<>>
                /\ agent_items[k].primary_color.words = <<>>
                /\ agent_items[k].material.words = <<>>
                /\ agent_items[k].style.words = <<>>)
              => Len(agent_result.groups) = Len(agent_items)

\* The two texts are single words of one family of furniture_synonyms.
SameSynonymFamily(text1, text2) ==
    /\ Len(text1) = 1
    /\ Len(text2) = 1
    /\ \E c \in 1..Len(furniture_synonyms) :
          /\ Lower(text1[1]) \in furniture_synonyms[c][2]
          /\ Lower(text2[1]) \in furniture_synonyms[c][2]

\* C26: before two field values are compared by the similarity scorer, each value
\* that is a member of a synonym family is replaced by the family's canonical name,
\* so two values of the same family (chair and armchair, for example) compare as an
\* exact match with field similarity 1.0.
C26_SynonymsCompareEqual ==
    (score # NoResult /\ SameSynonymFamily(score_attr1.type, score_attr2.type)) =>
        /\ text_similarity(score_attr1.type, score_attr2.type) = FloatDiv(1, 1)
        /\ FloatGE(score, FloatDiv(4, 10))

\* C27: run_workflow answers success exactly when the errors it answers are none,
\* whatever agents fail; the node of a failing agent appends one error, does not
\* append its name to completed_steps, and hands over to the next node, so that
\* every agent has been called when the final state is answered.
C27_SuccessIffNoErrors ==
    /\ [](workflow_return # NoResult =>
            /\ workflow_return.success <=> (workflow_return.errors = <<>>)
            /\ state.node = "returned" =>
                    \A k \in 1..6 :
                        /\ agent_outcomes[k] # "pending"
                        /\ agent_outcomes[k] = "raised" <=>
                                workflow_nodes[k] \notin Range(workflow_return.completed_steps))
    /\ [][\A k \in 1..6 :
            (agent_outcomes # NoResult /\ agent_outcomes[k] = "pending"
                /\ agent_outcomes'[k] = "raised") =>
                    /\ Len(state'.errors) = Len(state.errors) + 1
                    /\ state'.completed_steps = state.completed_steps
                    /\ state'.node = workflow_nodes[k + 1]]_vars

\* The vision agent failed, the brand agent completed after it, and the answer
\* reports failure together with its errors.
C27_Witness ==
    /\ workflow_return # NoResult
    /\ state.node = "returned"
    /\ agent_outcomes[1] = "raised"
    /\ "brand_recognition" \in Range(workflow_return.completed_steps)
    /\ ~workflow_return.success
    /\ workflow_return.errors # <<>>

\* C28: when pricing_agent is called, each of the five agents has finished, and
\* for each of them one argument of the call is its result, or the empty mapping
\* when it raised.
C28_PricingReceivesEveryResult ==
    pricing_call # NoResult =>
        \A agent \in DOMAIN agent_results :
            /\ agent_results[agent].kind # "pending"
            /\ \E parameter \in DOMAIN pricing_call :
                    pricing_call[parameter] =
                        IF agent_results[agent].kind = "exception"
                        THEN [kind |-> "mapping", agent |-> "{}"]
                        ELSE agent_results[agent]

\* C29: a request of the endpoint with no image among its files (and no more files
\* than allowed) is answered with an HTTP error of status 400, and neither the
\* classifier nor the agent fallback has run.
C29_NoImageAnsweredWith400 ==
    (/\ entry = "endpoint"
     /\ node = "done"
     /\ Len(files) \in 1..MaxBatch
     /\ \A k \in 1..Len(files) : ~files[k]) =>
        /\ response.kind = "http_error"
        /\ response.status_code = 400
        /\ result = NoResult
        /\ current_step = "none"

\* C30: two batches whose analyses are under way have no saved path in common, and
\* each finds under every one of its paths the file it wrote.
C30_BatchesShareNoUpload ==
    \A b \in DOMAIN batches :
        batches[b].status = "analysis" =>
            /\ \A path \in Range(batches[b].saved_paths) : <<path, b>> \in uploads
            /\ \A other \in DOMAIN batches \ {b} :
                    batches[other].status = "analysis" =>
                        Range(batches[b].saved_paths) \cap Range(batches[other].saved_paths) = {}
====
